---- MODULE Spec2Model ----
(***************************************************************************)
(* MetaFederate: a model of the federation engine (src/core/federation.py) *)
(* -- endpoint discovery, outbound delivery and inbound receipt -- with    *)
(* the remote peers (DNS, well-known document, inbox) as the environment.  *)
(***************************************************************************)
EXTENDS Integers, Sequences, FiniteSets, TLC

(***************************************************************************)
(* Bounds and input sets                                                   *)
(***************************************************************************)

\* The number of POSTs the model lets the engine issue in one behaviour.
MaxPosts == 2

\* Python's None, as returned by discover_server and dict.get.
None == "None"

\* Target domains of outbound deliveries.
Domains == {"a.example", "b.example"}

\* Outbound activities (identified by their id).
Activities == {"act1", "act2"}

\* Config._config['federation']['retry_attempts'] (its default).
retry_attempts == 3

\* Answers of dns.resolver.resolve('_metafederate._tcp.<domain>', 'SRV'):
\* an answer with records (the first one is used), an empty answer, or an
\* exception.
SrvRecordA == [target |-> "node1.fed.example.", port |-> 8443]
SrvRecordB == [target |-> "node2.fed.example.", port |-> 443]
SrvOutcomes ==
    { [exc |-> "none", records |-> <<SrvRecordA>>],
      [exc |-> "none", records |-> <<SrvRecordB, SrvRecordA>>],
      [exc |-> "none", records |-> <<>>],
      [exc |-> "NoAnswer", records |-> <<>>],
      [exc |-> "NXDOMAIN", records |-> <<>>],
      [exc |-> "Timeout", records |-> <<>>] }

\* Outcomes of GET https://<domain>/.well-known/metafederate: the request
\* raises, or answers with a status and a body.  A body is JSON or not, and a
\* JSON body has a server_url field or not.
WkBody(json, has, url) == [json |-> json, has_url |-> has, server_url |-> url]
NoBody == WkBody(FALSE, FALSE, "")
WellKnownOutcomes ==
    { [exc |-> "ClientConnectorError", status |-> 0, body |-> NoBody],
      [exc |-> "TimeoutError", status |-> 0, body |-> NoBody],
      [exc |-> "none", status |-> 200, body |-> WkBody(TRUE, TRUE, "https://fed.example.com")],
      [exc |-> "none", status |-> 200, body |-> WkBody(TRUE, TRUE, "")],
      [exc |-> "none", status |-> 200, body |-> WkBody(TRUE, FALSE, "")],
      [exc |-> "none", status |-> 200, body |-> NoBody],
      [exc |-> "none", status |-> 404, body |-> NoBody],
      [exc |-> "none", status |-> 500, body |-> NoBody] }

\* Outcomes of POST <server_url>/inbox: the request raises, or answers with a
\* status.
PostOutcomes ==
    { [exc |-> "none", status |-> 200],
      [exc |-> "none", status |-> 202],
      [exc |-> "none", status |-> 201],
      [exc |-> "none", status |-> 404],
      [exc |-> "none", status |-> 500],
      [exc |-> "ClientConnectorError", status |-> 0],
      [exc |-> "TimeoutError", status |-> 0] }

\* A request that was not made has no outcome.
NotRequested == "not_requested"
NoSrv == [exc |-> NotRequested, records |-> <<>>]
NoWellKnown == [exc |-> NotRequested, status |-> 0, body |-> NoBody]
NoPost == [exc |-> NotRequested, status |-> 0]

VARIABLES
    session,    \* Federation.session: "None", "open" or "closed"
    last,       \* the last call: its arguments, what the peers answered, its result
    posted,     \* per <<activity, domain>>: the POSTs issued so far
    accepted,   \* the <<activity, domain>> pairs a POST of which was answered 200/202
    tasks,      \* per fan-out target: the deliver_activity coroutine run for it
    likes,      \* content_interactions: the rows of interaction_type 'like'
    comments,   \* comments: its rows
    reposts,    \* reposts: its rows
    counts,     \* federated_content: per content its like/comment/repost counters
    nextId,     \* the next value uuid.uuid4() gives (every call gives a fresh one)
    ilast,      \* the last SocialInteractions call: arguments and result
    calls,      \* like_content coroutines running concurrently
    rel,        \* user_relationships: per ordered pair of users its row's type
    slast,      \* the last SocialGraph call: arguments and result
    plast,      \* the last MetaFederateProtocol.handle_activity call and its result
    clast,      \* the last Crypto call: arguments and outcome
    msgs,       \* direct_messages: its rows
    mlast,      \* the last MessageManager call: arguments and result
    users,      \* federated_users: its rows
    nextUser,   \* the next user id uuid.uuid4() gives
    ulast,      \* the last UserManager call: arguments and result
    app,        \* RESTAPI.app as create_app returned it: "None" or "Application"
    hlast,      \* the last create_app call or HTTP request, and its outcome
    fb,         \* follow(A, B) and block(A, B) running concurrently: where each is, what it read and returned
    connections,\* WebSocketManager.connections: per user_id key its set of sockets
    sockets,    \* per socket: where its handle_websocket call is, and for which user_id
    wlast       \* the last WebSocketManager call: arguments and result

fedVars == <<session, last, posted, accepted>>
fanVars == <<tasks>>
tableVars == <<likes, comments, reposts, counts, nextId>>
intVars == <<tableVars, ilast, calls>>
socVars == <<rel, slast>>
proVars == <<plast>>
cryVars == <<clast>>
msgVars == <<msgs, mlast>>
usrVars == <<users, nextUser, ulast>>
httpVars == <<app, hlast>>
fbVars == <<fb>>
wsVars == <<connections, sockets, wlast>>
nonFedVars == <<fanVars, intVars, socVars, proVars, cryVars, msgVars, usrVars, httpVars, fbVars, wsVars>>
nonFanVars == <<fedVars, intVars, socVars, proVars, cryVars, msgVars, usrVars, httpVars, fbVars, wsVars>>
nonIntVars == <<fedVars, fanVars, socVars, proVars, cryVars, msgVars, usrVars, httpVars, fbVars, wsVars>>
nonSocVars == <<fedVars, fanVars, intVars, proVars, cryVars, msgVars, usrVars, httpVars, fbVars, wsVars>>
nonProVars == <<fedVars, fanVars, intVars, socVars, cryVars, msgVars, usrVars, httpVars, fbVars, wsVars>>
nonCryVars == <<fedVars, fanVars, intVars, socVars, proVars, msgVars, usrVars, httpVars, fbVars, wsVars>>
nonMsgVars == <<fedVars, fanVars, intVars, socVars, proVars, cryVars, usrVars, httpVars, fbVars, wsVars>>
nonUsrVars == <<fedVars, fanVars, intVars, socVars, proVars, cryVars, msgVars, httpVars, fbVars, wsVars>>
nonHttpVars == <<fedVars, fanVars, intVars, socVars, proVars, cryVars, msgVars, usrVars, fbVars, wsVars>>
nonFbVars == <<fedVars, fanVars, intVars, socVars, proVars, cryVars, msgVars, usrVars, httpVars, wsVars>>
nonWsVars == <<fedVars, fanVars, intVars, socVars, proVars, cryVars, msgVars, usrVars, httpVars, fbVars>>
vars == <<fedVars, fanVars, intVars, socVars, proVars, cryVars, msgVars, usrVars, httpVars, fbVars, wsVars>>


(***************************************************************************)
(* Python outcomes: a call returns a value or raises an exception.         *)
(***************************************************************************)

Return(value) == [exc |-> "none", ret |-> value]
Raise(exc, dummy) == [exc |-> exc, ret |-> dummy]

\* A variant of the except clause that lets the errors of a session that is
\* not live through.
ExceptException_NotSessionErrors(outcome, value) ==
    IF outcome.exc \notin {"none", "AttributeError", "RuntimeError"}
    THEN Return(value) ELSE outcome

\* try: <outcome> except Exception: return value
\* (every exception of the model -- the DNS, aiohttp, asyncio and attribute
\* errors -- derives from Exception).
ExceptException(outcome, value) ==
    IF outcome.exc # "none" THEN Return(value) ELSE outcome

\* self.session.<method>(...) on a session that is not a live aiohttp session:
\* None has no such attribute, a closed session refuses the request.
SessionError(sess) ==
    CASE sess = "None" -> "AttributeError"
      [] sess = "closed" -> "RuntimeError"
      [] OTHER -> "none"

(***************************************************************************)
(* Federation.discover_server                                              *)
(***************************************************************************)

\* f"https://{record.target}:{record.port}"
SrvUrl(record) == "https://" \o record.target \o ":" \o ToString(record.port)

\* f"https://{target_domain}/.well-known/metafederate"
WellKnownUrl(target_domain) == "https://" \o target_domain \o "/.well-known/metafederate"

\* f"https://federate.{target_domain}"
FallbackUrl(target_domain) == "https://federate." \o target_domain

\* The inner try of discover_server: "return" (an SRV record is used), "next"
\* (an empty answer, or NoAnswer caught by the inner except) or "raise" (any
\* other exception leaves the inner try).
SrvTier(srv) ==
    IF srv.exc = "none"
    THEN IF srv.records # <<>> THEN "return" ELSE "next"
    ELSE IF srv.exc = "NoAnswer" THEN "next" ELSE "raise"

\* Whether self.session.get(well_known_url) sends a request: the SRV tier fell
\* through and the session is live.
WellKnownRequested(sess, srv) ==
    SrvTier(srv) = "next" /\ SessionError(sess) = "none"

\* data.get('server_url') of a parsed body.
GetServerUrl(body) == IF body.has_url THEN body.server_url ELSE None

\* The well-known tier and the fallback behind it.
WellKnownTier(sess, target_domain, wk) ==
    IF SessionError(sess) # "none" THEN Raise(SessionError(sess), None)
    ELSE IF wk.exc # "none" THEN Raise(wk.exc, None)
    ELSE IF wk.status = 200
         THEN IF wk.body.json
              THEN Return(GetServerUrl(wk.body))
              ELSE Raise("ContentTypeError", None)
         ELSE Return(FallbackUrl(target_domain))

\* The body of discover_server's outer try.
DiscoverTry(sess, target_domain, srv, wk) ==
    CASE SrvTier(srv) = "return" -> Return(SrvUrl(srv.records[1]))
      [] SrvTier(srv) = "raise" -> Raise(srv.exc, None)
      [] SrvTier(srv) = "next" -> WellKnownTier(sess, target_domain, wk)

\* discover_server: the outer except logs and returns None.
discover_server(sess, target_domain, srv, wk) ==
    ExceptException(DiscoverTry(sess, target_domain, srv, wk), None)

\* The HTTP requests discover_server sends.
DiscoverRequests(sess, target_domain, srv) ==
    IF WellKnownRequested(sess, srv)
    THEN << [method |-> "GET", url |-> WellKnownUrl(target_domain)] >>
    ELSE << >>

(***************************************************************************)
(* Federation.deliver_activity                                             *)
(***************************************************************************)

\* A variant of the guard that tests for the empty string only.
NotServerUrl_EmptyOnly(server_url) == server_url = ""

\* Python's "not server_url": None and the empty string are falsy.
NotServerUrl(server_url) == server_url \in {None, ""}

\* A variant of the status test that takes every 2xx status for success.
StatusOk_Any2xx(status) == status \in 200..299

\* response.status in (200, 202)
StatusOk(status) == status \in {200, 202}

\* Whether self.session.post(...) sends a request.
PostRequested(sess, server_url) ==
    ~NotServerUrl(server_url) /\ SessionError(sess) = "none"

\* The body of deliver_activity's try: one POST, judged by its status.
PostTry(sess, post) ==
    IF SessionError(sess) # "none" THEN Raise(SessionError(sess), FALSE)
    ELSE IF post.exc # "none" THEN Raise(post.exc, FALSE)
    ELSE Return(StatusOk(post.status))

\* deliver_activity, given what discover_server returned.
deliver_activity(sess, server_url, post) ==
    IF NotServerUrl(server_url)
    THEN Return(FALSE)
    ELSE ExceptException(PostTry(sess, post), FALSE)

\* The POSTs deliver_activity sends.
DeliverRequests(sess, server_url) ==
    IF PostRequested(sess, server_url)
    THEN << [method |-> "POST", url |-> server_url \o "/inbox"] >>
    ELSE << >>

(***************************************************************************)
(* Federation.receive_activity                                             *)
(***************************************************************************)

\* The 'type' values of inbound activities: the values of ActivityType and
\* one that is none of them.
ActivityTypes ==
    {"Create", "Update", "Delete", "Follow", "Block", "Like", "Undo",
     "Announce", "Mention", "Message", "Bogus"}

\* The 'actor' of an inbound activity, as its '@'-separated parts:
\* alice@good.example, mallory@blocked.example, eve@good.example@blocked.example.
Actors ==
    { <<"alice", "good.example">>,
      <<"mallory", "blocked.example">>,
      <<"eve", "good.example", "blocked.example">> }

\* An inbound activity's signature either verifies against its actor's public
\* key or was corrupted on the way.
Signatures == {"valid", "corrupted"}

InboundActivities == [type : ActivityTypes, actor : Actors, signature : Signatures]

\* The domains the operator of this server has put on the block list.
BlockList == {"blocked.example"}

\* activity['actor'].split('@')[-1]
ActorDomain(actor) == actor[Len(actor)]

\* _validate_signature: a placeholder that accepts every activity.
validate_signature(activity) == TRUE

\* _is_domain_blocked: a placeholder that blocks no domain.
is_domain_blocked(domain) == FALSE

\* The if/elif chain of receive_activity: the handler a type is dispatched to.
ProcessHandler(activity_type) ==
    CASE activity_type = "Follow" -> "_process_follow"
      [] activity_type = "Like" -> "_process_like"
      [] activity_type = "Create" -> "_process_create"
      [] activity_type = "Announce" -> "_process_announce"
      [] OTHER -> "none"

Error(message) == [key |-> "error", value |-> message, handler |-> "none"]

\* _process_follow, _process_like, _process_create, _process_announce: each
\* returns {"status": "processed"} and touches no state.
Processed(handler) == [key |-> "status", value |-> "processed", handler |-> handler]

\* receive_activity: the dictionary returned and the handler that ran.
receive_activity(activity) ==
    IF ~validate_signature(activity) THEN Error("Invalid signature")
    ELSE IF is_domain_blocked(ActorDomain(activity.actor)) THEN Error("Domain blocked")
    ELSE IF ProcessHandler(activity.type) # "none"
         THEN Processed(ProcessHandler(activity.type))
         ELSE Error("Unsupported activity type")

(***************************************************************************)
(* Concurrent deliveries: the targets and the state of a coroutine         *)
(***************************************************************************)

\* The targets one activity is delivered to.
FanOutTargets == Domains \cup {"c.example"}

\* A deliver_activity coroutine: where it stands ("idle": not called yet,
\* "srv": inside dns.resolver.resolve, "wk": awaiting the well-known GET, "post":
\* awaiting the POST, "done": returned), what discovery gave it and what it
\* returned.
Task(pc, server_url, post, delivered) ==
    [pc |-> pc, server_url |-> server_url, post |-> post, delivered |-> delivered]
IdleTask == Task("idle", None, NoPost, FALSE)

FanInit == tasks = [d \in FanOutTargets |-> IdleTask]

(***************************************************************************)
(* SocialInteractions: the tables and their initial contents               *)
(***************************************************************************)

\* The uuids one behaviour may draw.
MaxIds == 3

\* The like_content coroutines one behaviour may run concurrently.
MaxCalls == 2

\* Federated addresses of the users who interact.
Users == {"alice@a.example", "bob@b.example"}

\* The ids of the rows of federated_content (the contents that exist).
Contents == {"c1", "c2"}

\* A row of content_interactions, comments or reposts: its id, the content it
\* refers to and the user it belongs to.
Row(id, content_id, user_address) ==
    [id |-> id, content_id |-> content_id, user_address |-> user_address]

\* The counters of a row of federated_content.
ZeroCounts == [like_count |-> 0, comment_count |-> 0, repost_count |-> 0]

\* fetchval / fetchrow finding no row.
NoId == 0

\* A SocialInteractions call: its arguments, the status it returned and the
\* id it returned or was given.
ICall(op, user_address, content_id, status, id) ==
    [op |-> op, user_address |-> user_address, content_id |-> content_id,
     status |-> status, id |-> id]

CallIds == 1..MaxCalls

\* A like_content coroutine: where it stands ("idle", "insert": the SELECT
\* found nothing, "update": the row is inserted, "done"), its arguments and
\* its result.
LikeCall(pc, user_address, content_id, like_id, status) ==
    [pc |-> pc, user_address |-> user_address, content_id |-> content_id,
     like_id |-> like_id, status |-> status]
IdleCall == LikeCall("idle", "none", "none", NoId, "none")

IntInit ==
    /\ likes = {}
    /\ comments = {}
    /\ reposts = {}
    /\ counts = [c \in Contents |-> ZeroCounts]
    /\ nextId = 1
    /\ ilast = ICall("__init__", "none", "none", "none", NoId)
    /\ calls = [k \in CallIds |-> IdleCall]

(***************************************************************************)
(* SocialGraph: the table and its initial contents                         *)
(***************************************************************************)

\* Federated addresses of the users of the social graph.
Addresses == Users \cup {"carol@a.example"}

\* A SocialGraph call: its arguments and the bool it returned.
SCall(op, user_address, target_address, ret) ==
    [op |-> op, user_address |-> user_address, target_address |-> target_address,
     ret |-> ret]

\* user_relationships holds at most one row per (user_address, target_user),
\* the conflict target of its upserts: the row's relationship_type, or "none".
SocInit ==
    /\ rel = [pair \in Addresses \X Addresses |-> "none"]
    /\ slast = SCall("__init__", "none", "none", FALSE)

(***************************************************************************)
(* MetaFederateProtocol: activities                                        *)
(***************************************************************************)

\* The object of an activity: absent ("missing"), a string ("str": an address
\* or a content id) or a dictionary ("dict") with its 'type', 'from' and 'to'
\* entries, each a value or "missing".
Obj(kind, type, from, to) == [kind |-> kind, type |-> type, from |-> from, to |-> to]

\* An activity dictionary: its 'type', whether it has an 'actor', its 'object'.
Activity(type, has_actor, object) ==
    [type |-> type, has_actor |-> has_actor, object |-> object]

\* The dictionary a handler returns: {"status": value} or {"error": value}.
Dict(key, value) == [key |-> key, value |-> value]

\* A handle_activity call: the activity, the dictionary returned and the
\* exception that left the call ("none": it returned).
PCall(activity, result, raised) ==
    [activity |-> activity, result |-> result, raised |-> raised]

ProInit ==
    plast = PCall(Activity("__init__", FALSE, Obj("missing", "missing", "missing", "missing")),
                  Dict("none", "none"), "none")

(***************************************************************************)
(* Crypto: keys, texts and the calls made                                  *)
(***************************************************************************)

\* The RSA key pairs generate_key_pair has produced.
KeyPairs == {"kp1", "kp2"}

\* A PEM string: the public or the private half of a key pair, or a string
\* that is no PEM key at all.
Pem(kind, pair) == [kind |-> kind, pair |-> pair]
PublicPem(pair) == Pem("public", pair)
PrivatePem(pair) == Pem("private", pair)
GarbagePem == Pem("garbage", "none")
NoPem == Pem("none", "none")

\* The strings handed in as public_key_pem and as private_key_pem.
PublicKeyPems == {PublicPem(k) : k \in KeyPairs} \cup {GarbagePem}
PrivateKeyPems == {PrivatePem(k) : k \in KeyPairs} \cup {GarbagePem}

\* Python strings as sequences of code points: "", "hi" and "e-acute" (one
\* code point, two bytes of UTF-8).
EmptyText == << >>
Texts == {EmptyText, <<104, 105>>, <<233>>}

\* The keys Fernet.generate_key() may draw.
SymmetricKeys == {"s1", "s2"}

\* A Crypto call: the text and key of the encrypting or signing call, and for
\* the decrypting or verifying call made on its result: how that result was
\* altered on the way, the text and key given, and the outcome.
CCall(op, text, pem, tamper, text2, pem2, out) ==
    [op |-> op, text |-> text, pem |-> pem, tamper |-> tamper,
     text2 |-> text2, pem2 |-> pem2, out |-> out]

CryInit ==
    clast = CCall("__init__", EmptyText, NoPem, "none", EmptyText, NoPem, Return("none"))

\* base64.b64encode(raw).decode('utf-8'): a string that is valid base64.
B64Encode(raw) == [valid |-> TRUE, raw |-> raw]

\* Fernet(key).encrypt(data): a token, authenticated under the key.
FernetEncrypt(key, data) == [key |-> key, data |-> data, mac |-> TRUE]

\* public_key.encrypt(message, OAEP)
RsaEncrypt(pair, message) == [pair |-> pair, message |-> message, intact |-> TRUE]

\* The dictionary encrypt_message returns.
EncryptedData(ciphertext, encrypted_key, algorithm) ==
    [ciphertext |-> ciphertext, encrypted_key |-> encrypted_key,
     algorithm |-> algorithm, version |-> "1.0"]

NoEncryptedData ==
    EncryptedData(B64Encode(FernetEncrypt("none", << >>)),
                  B64Encode(RsaEncrypt("none", "none")), "none")

(***************************************************************************)
(* MessageManager: the table and the calls made                            *)
(***************************************************************************)

\* The messages one behaviour may send.
MaxMsgs == 2

\* The values datetime.utcnow() may give.
Times == {"t1", "t2"}

\* A row of direct_messages: its id, sender, recipient, the encrypted content
\* with its wrapped key and algorithm, the creation time and the read flag.
Msg(id, from_user, to_user, encrypted_data, created_at, read) ==
    [id |-> id, from_user |-> from_user, to_user |-> to_user,
     encrypted_content |-> encrypted_data.ciphertext,
     encryption_key |-> encrypted_data.encrypted_key,
     algorithm |-> encrypted_data.algorithm,
     created_at |-> created_at, read |-> read]

\* fetchrow finding no row.
NoMsg == Msg(NoId, "none", "none", NoEncryptedData, "none", FALSE)

\* A MessageManager call: its arguments, the message it returned (NoMsg for
\* None), the bool it returned and the exception it raised.
MCall(op, message_id, user_address, to_user, message, ret, raised) ==
    [op |-> op, message_id |-> message_id, user_address |-> user_address,
     to_user |-> to_user, message |-> message, ret |-> ret, raised |-> raised,
     messages |-> {}, count |-> 0]

MsgInit ==
    /\ msgs = {}
    /\ mlast = MCall("__init__", NoId, "none", "none", NoMsg, FALSE, "none")

(***************************************************************************)
(* UserManager: the table and the calls made                               *)
(***************************************************************************)

\* The users one behaviour may create.
MaxUsers == 2

Passwords == {"pw1", "pw2"}

\* A row of federated_users.
User(id, address, display_name, bio, avatar_url, public_key, private_key_encrypted,
     password_hash) ==
    [id |-> id, address |-> address, display_name |-> display_name, bio |-> bio,
     avatar_url |-> avatar_url, public_key |-> public_key,
     private_key_encrypted |-> private_key_encrypted, password_hash |-> password_hash]

\* bcrypt.hashpw(password, salt)
hash_password(password) == [hashed |-> password]

\* bcrypt.checkpw(password, hashed_password)
verify_password(password, hashed_password) == hashed_password.hashed = password

\* fetchrow finding no row.
NoUser == User(NoId, "none", "none", "none", "none", NoPem, NoPem, hash_password("none"))

\* A dictionary, as the set of its <<key, value>> items.
DictKeys(d) == {item[1] : item \in d}
DictGet(d, key) == (CHOOSE item \in d : item[1] = key)[2]

\* The update dictionaries handed to update_profile: empty, profile fields
\* only, key columns only, and both together.
UpdateDicts ==
    { {},
      {<<"display_name", "Al">>},
      {<<"bio", "b">>, <<"avatar_url", "u">>},
      {<<"public_key", PublicPem("kp2")>>},
      {<<"private_key_encrypted", PrivatePem("kp2")>>, <<"display_name", "Al">>},
      {<<"public_key", PublicPem("kp1")>>, <<"private_key_encrypted", PrivatePem("kp1")>>} }

\* A UserManager call: its arguments, the user it returned (NoUser for None),
\* the bool it returned and the exception it raised.
UCall(op, user_id, address, updates, user, ret, raised) ==
    [op |-> op, user_id |-> user_id, address |-> address, updates |-> updates,
     user |-> user, ret |-> ret, raised |-> raised]

UsrInit ==
    /\ users = {}
    /\ nextUser = 1
    /\ ulast = UCall("__init__", NoId, "none", {}, NoUser, FALSE, "none")

(***************************************************************************)
(* REST API: requests and responses                                        *)
(***************************************************************************)

\* The paths requested: the inbox, two of the public endpoints, and one that no
\* route matches.
Paths == {"/federation/inbox", "/.well-known/webfinger", "/.well-known/nodeinfo",
          "/nowhere"}

Methods == {"GET", "POST"}

\* The Authorization header: absent, of another scheme, or "Bearer " followed
\* by a token that is well signed and current ("valid"), well signed and
\* expired, signed under another secret, or not a JWT at all.
AuthHeaders == {"None", "Basic", "Bearer valid", "Bearer expired", "Bearer forged",
                "Bearer malformed"}

\* The request body: no JSON, or an activity that is valid, badly signed,
\* from a blocked domain, or of an unsupported type.
Bodies == {"not json", "valid", "invalid signature", "blocked domain",
           "unsupported type"}

\* The resource query parameter of a webfinger request.
Resources == {"None", "acct:alice@a.example", "acct:alice@b.example", "acct:alice"}

Request(path, method, authorization, body, resource) ==
    [path |-> path, method |-> method, authorization |-> authorization,
     body |-> body, resource |-> resource]

\* A response: its status, the keys of its JSON body, and the route handler
\* that produced it ("none" when the request did not get that far).
Response(status, body, handler) == [status |-> status, body |-> body, handler |-> handler]

\* What a client gets from a server that was never started.
NoResponse == Response(0, {}, "none")

NoRequest == Request("none", "none", "None", "not json", "None")

\* A create_app call or a request: the request, the response and the
\* exception raised.
HCall(op, request, response, raised) ==
    [op |-> op, request |-> request, response |-> response, raised |-> raised]

HttpInit ==
    /\ app = "None"
    /\ hlast = HCall("none", NoRequest, NoResponse, "none")

\* follow(user_address, target_address) and block(user_address,
\* target_address) as two coroutines: the statement each is about to issue,
\* the status follow read and what each returned.
FbCall(user_address, target_address, fpc, fstatus, fret, bpc, bret) ==
    [user_address |-> user_address, target_address |-> target_address,
     fpc |-> fpc, fstatus |-> fstatus, fret |-> fret, bpc |-> bpc, bret |-> bret]

FbInit == fb = FbCall("none", "none", "idle", "none", FALSE, "idle", FALSE)

(***************************************************************************)
(* WebSocketManager: connections and sockets                               *)
(***************************************************************************)

\* The WebSocket connections one behaviour may see.
MaxSockets == 2

Sockets == 1..MaxSockets

\* request.get('user_id'): the user AuthMiddleware put on the request, or None.
WsUserIds == {"u1", "u2"}
NoUserId == "None"

\* A socket: "new" (no request yet), "open" (handle_websocket is in its
\* message loop) or "returned" (handle_websocket has returned).
Socket(state, user_id) == [state |-> state, user_id |-> user_id]

\* A WebSocketManager call: the user, the socket, the sockets the send failed
\* on, and what was returned.
WCall(op, user_id, ws, failed, ret, successful) ==
    [op |-> op, user_id |-> user_id, ws |-> ws, failed |-> failed, ret |-> ret,
     successful |-> successful]

\* The empty dictionary.
EmptyConnections == [user_id \in {} |-> {}]

WsInit ==
    /\ connections = EmptyConnections
    /\ sockets = [ws \in Sockets |-> Socket("new", NoUserId)]
    /\ wlast = WCall("__init__", NoUserId, 0, {}, FALSE, 0)

(***************************************************************************)
(* State machine                                                           *)
(***************************************************************************)

Pairs == Activities \X Domains

RECURSIVE SumOver(_, _)
SumOver(f, S) ==
    IF S = {} THEN 0
    ELSE LET x == CHOOSE y \in S : TRUE IN f[x] + SumOver(f, S \ {x})

TotalPosted == SumOver(posted, Pairs)

NoInbound == [type |-> "none", actor |-> << >>, signature |-> "none"]
NoResult == [key |-> "none", value |-> "none", handler |-> "none"]

\* A call of `op` before its arguments and results are filled in.
Call(op) ==
    [ op |-> op, activity |-> "none", target_domain |-> "none",
      srv |-> NoSrv, wk |-> NoWellKnown, post |-> NoPost,
      server_url |-> None, delivered |-> FALSE, raised |-> "none",
      requests |-> << >>, inbound |-> NoInbound, result |-> NoResult ]

\* Federation.__init__: no session yet.
Init ==
    /\ session = "None"
    /\ last = Call("__init__")
    /\ posted = [p \in Pairs |-> 0]
    /\ accepted = {}
    /\ FanInit
    /\ IntInit
    /\ SocInit
    /\ ProInit
    /\ CryInit
    /\ MsgInit
    /\ UsrInit
    /\ HttpInit
    /\ FbInit
    /\ WsInit

\* Federation.initialize: a fresh aiohttp session.
Initialize ==
    /\ session' = "open"
    /\ last' = Call("initialize")
    /\ UNCHANGED <<posted, accepted>>
    /\ UNCHANGED nonFedVars

\* Federation.close: closes the session if there is one.
Close ==
    /\ session' = IF session = "None" THEN "None" ELSE "closed"
    /\ last' = Call("close")
    /\ UNCHANGED <<posted, accepted>>
    /\ UNCHANGED nonFedVars

\* The answers the well-known host can give: none to a request never sent.
WellKnownAnswers(sess, srv) ==
    IF WellKnownRequested(sess, srv) THEN WellKnownOutcomes ELSE {NoWellKnown}

\* The answers the inbox can give: none to a request never sent.
PostAnswers(sess, server_url) ==
    IF PostRequested(sess, server_url) THEN PostOutcomes ELSE {NoPost}

\* A call of discover_server(target_domain), the resolver and the well-known
\* host answering srv and wk.
DiscoverServer ==
    \E target_domain \in Domains, srv \in SrvOutcomes :
      \E wk \in WellKnownAnswers(session, srv) :
        LET out == discover_server(session, target_domain, srv, wk)
        IN  /\ last' = [ Call("discover_server") EXCEPT
                           !.target_domain = target_domain,
                           !.srv = srv,
                           !.wk = wk,
                           !.server_url = out.ret,
                           !.raised = out.exc,
                           !.requests = DiscoverRequests(session, target_domain, srv) ]
            /\ UNCHANGED <<session, posted, accepted>>
            /\ UNCHANGED nonFedVars

\* A call of deliver_activity(activity, target_domain), the peers answering
\* srv, wk and post.
DeliverActivity ==
    /\ TotalPosted < MaxPosts
    /\ \E activity \in Activities, target_domain \in Domains, srv \in SrvOutcomes :
       \E wk \in WellKnownAnswers(session, srv) :
       \E post \in PostAnswers(session, discover_server(session, target_domain, srv, wk).ret) :
        LET server_url == discover_server(session, target_domain, srv, wk).ret
            out == deliver_activity(session, server_url, post)
            sent == DeliverRequests(session, server_url)
            pair == <<activity, target_domain>>
        IN  /\ last' = [ Call("deliver_activity") EXCEPT
                           !.activity = activity,
                           !.target_domain = target_domain,
                           !.srv = srv,
                           !.wk = wk,
                           !.post = post,
                           !.server_url = server_url,
                           !.delivered = out.ret,
                           !.raised = out.exc,
                           !.requests = DiscoverRequests(session, target_domain, srv) \o sent ]
            /\ posted' = [posted EXCEPT ![pair] = @ + Len(sent)]
            /\ accepted' = IF sent # << >> /\ post.exc = "none" /\ post.status \in {200, 202}
                           THEN accepted \cup {pair}
                           ELSE accepted
            /\ UNCHANGED session
            /\ UNCHANGED nonFedVars

\* A call of receive_activity(activity).
ReceiveActivity ==
    \E activity \in InboundActivities :
        /\ last' = [ Call("receive_activity") EXCEPT
                       !.inbound = activity,
                       !.result = receive_activity(activity) ]
        /\ UNCHANGED <<session, posted, accepted>>
        /\ UNCHANGED nonFedVars

Next ==
    \/ Initialize
    \/ Close
    \/ DiscoverServer
    \/ DeliverActivity
    \/ ReceiveActivity

Spec == Init /\ [][Next]_vars

(***************************************************************************)
(* Properties of receive_activity                                          *)
(***************************************************************************)

Received == last.op = "receive_activity"

\* The facts about an inbound activity that the checks are meant to establish.
SignatureVerifies(activity) == activity.signature = "valid"
OnBlockList(activity) == ActorDomain(activity.actor) \in BlockList

\* The activity types the dispatcher enumerates.
EnumeratedTypes == {"Follow", "Block", "Like", "Undo", "Create", "Announce", "Message"}

Rejected(message) ==
    /\ last.result.key = "error"
    /\ last.result.value = message
    /\ last.result.handler = "none"

\* C1: an inbound activity whose signature does not verify against the actor's
\* public key is rejected with the invalid-signature error and no handler runs.
C1_InvalidSignatureRejected ==
    (Received /\ ~SignatureVerifies(last.inbound)) => Rejected("Invalid signature")

\* C2: an inbound activity (with a good signature) whose actor's domain, the
\* part of 'actor' after the last '@', is on the block list is rejected with
\* the domain-blocked error and no handler runs.
C2_BlockedDomainRejected ==
    (Received /\ SignatureVerifies(last.inbound) /\ OnBlockList(last.inbound))
        => Rejected("Domain blocked")

\* C3: the checks short-circuit in the order signature, block list, type: an
\* activity failing several gets the error of the first one it fails, and a
\* handler runs only if the signature verified and the domain is not blocked.
C3_FirstFailingCheckWins ==
    Received =>
        /\ (~SignatureVerifies(last.inbound) /\ OnBlockList(last.inbound))
              => Rejected("Invalid signature")
        /\ (~SignatureVerifies(last.inbound) /\ last.inbound.type \notin EnumeratedTypes)
              => Rejected("Invalid signature")
        /\ (SignatureVerifies(last.inbound) /\ OnBlockList(last.inbound)
              /\ last.inbound.type \notin EnumeratedTypes)
              => Rejected("Domain blocked")
        /\ last.result.handler # "none"
              => (SignatureVerifies(last.inbound) /\ ~OnBlockList(last.inbound))

\* C4: an activity that passes both checks is dispatched to a handler when its
\* type is one of the enumerated types, and is rejected as unsupported, with no
\* handler run, only when its type is outside that set.
C4_EnumeratedTypesDispatched ==
    (Received /\ SignatureVerifies(last.inbound) /\ ~OnBlockList(last.inbound)) =>
        IF last.inbound.type \in EnumeratedTypes
        THEN last.result.handler # "none" /\ last.result.key = "status"
        ELSE Rejected("Unsupported activity type")

(***************************************************************************)
(* Properties of discover_server                                           *)
(***************************************************************************)

Discovered == last.op = "discover_server" /\ session = "open"

SrvRecordExists(srv) == srv.exc = "none" /\ srv.records # << >>

\* The well-known document answered with success and carries server_url.
WellKnownSucceeded(wk) ==
    wk.exc = "none" /\ wk.status = 200 /\ wk.body.json /\ wk.body.has_url

\* C5: the tiers are tried in the order SRV, well-known, fallback and the first
\* that succeeds decides: an SRV record gives https://<target>:<port> without
\* any HTTP request, else a successful well-known document gives its
\* server_url, else the result is https://federate.<domain>.
C5_FirstSuccessfulTierWins ==
    Discovered =>
        IF SrvRecordExists(last.srv)
        THEN last.server_url = SrvUrl(last.srv.records[1]) /\ last.requests = << >>
        ELSE IF WellKnownSucceeded(last.wk)
             THEN last.server_url = last.wk.body.server_url
             ELSE last.server_url = FallbackUrl(last.target_domain)

\* C6: a failing tier is swallowed and the next one attempted: a failed SRV
\* lookup is followed by the well-known GET, a failed well-known fetch by the
\* fallback, so that the result is never None.
C6_TierFailuresSwallowed ==
    Discovered =>
        /\ ~SrvRecordExists(last.srv) => last.requests # << >>
        /\ (last.srv.exc # "none" /\ ~WellKnownSucceeded(last.wk))
              => last.server_url = FallbackUrl(last.target_domain)
        /\ last.server_url # None

(***************************************************************************)
(* Properties of deliver_activity                                          *)
(***************************************************************************)

Delivering == last.op = "deliver_activity"

IsPost(request) == request.method = "POST"

\* The POSTs of the last call.
PostsOf(call) == SelectSeq(call.requests, IsPost)

\* C7: when discovery yields no endpoint, deliver_activity returns False and
\* issues no POST.
C7_NoEndpointNoPost ==
    [][ (last'.op = "deliver_activity" /\ last'.server_url = None)
          => /\ last'.delivered = FALSE
             /\ last'.raised = "none"
             /\ PostsOf(last') = << >>
             /\ posted' = posted ]_vars

\* C7 witness: a delivery on a live session whose discovery returned None.
C7_Witness ==
    Delivering /\ session = "open" /\ last.server_url = None /\ ~last.delivered

\* C8: a delivery succeeds exactly when its POST to <endpoint>/inbox is
\* answered 200 or 202; any other status, a connection error or a timeout is a
\* failure, and the call never raises.
C8_SuccessIffPostAccepted ==
    Delivering =>
        /\ last.raised = "none"
        /\ last.delivered <=>
              /\ PostsOf(last) = << [method |-> "POST", url |-> last.server_url \o "/inbox"] >>
              /\ last.post.exc = "none"
              /\ last.post.status \in {200, 202}

\* C8 witness: a delivery whose POST was answered 202 and that returned True.
C8_Witness ==
    Delivering /\ last.delivered /\ last.post.status = 202

\* C9: for one target, delivery retries after a failed attempt while attempts
\* remain: it reports failure only after retry_attempts POSTs have failed, and
\* never makes more than retry_attempts attempts.
C9_RetriesUntilExhausted ==
    Delivering =>
        /\ Len(PostsOf(last)) <= retry_attempts
        /\ (PostsOf(last) # << >> /\ ~last.delivered)
              => Len(PostsOf(last)) = retry_attempts

\* C10: once a POST of an activity to a domain has been answered with success,
\* no further POST of that activity to that domain is issued.
C10_NoDuplicateAfterSuccess ==
    [][ \A pair \in accepted : posted'[pair] = posted[pair] ]_vars

(***************************************************************************)
(* Concurrent deliveries.  deliver_activity is a coroutine: several calls  *)
(* on one Federation run on one event loop and interleave at their awaits  *)
(* (the well-known GET, the POST).  dns.resolver.resolve is a synchronous  *)
(* call: while one coroutine is inside it the event loop runs nothing else.*)
(***************************************************************************)

\* The event loop's thread is inside some coroutine's dns.resolver.resolve call.
LoopBusy == \E d \in FanOutTargets : tasks[d].pc = "srv"

\* The coroutine once discover_server has returned server_url: it returns
\* False, or sends the POST and awaits the answer.
AfterDiscover(sess, server_url) ==
    IF PostRequested(sess, server_url)
    THEN Task("post", server_url, NoPost, FALSE)
    ELSE Task("done", server_url, NoPost, deliver_activity(sess, server_url, NoPost).ret)

\* deliver_activity(activity, d) is called: the coroutine runs up to the SRV
\* lookup.
StartDeliver(d) ==
    /\ ~LoopBusy
    /\ tasks[d].pc = "idle"
    /\ tasks' = [tasks EXCEPT ![d] = Task("srv", None, NoPost, FALSE)]
    /\ UNCHANGED nonFanVars

\* The SRV lookup of d's coroutine returns or raises; the coroutine runs on to
\* its next await or to its return.
SrvAnswer(d) ==
    /\ tasks[d].pc = "srv"
    /\ \E srv \in SrvOutcomes :
         tasks' = [tasks EXCEPT ![d] =
                     IF WellKnownRequested(session, srv)
                     THEN Task("wk", None, NoPost, FALSE)
                     ELSE AfterDiscover(session, discover_server(session, d, srv, NoWellKnown).ret)]
    /\ UNCHANGED nonFanVars

\* The well-known GET of d's coroutine is answered.
WkAnswer(d) ==
    /\ ~LoopBusy
    /\ tasks[d].pc = "wk"
    /\ \E wk \in WellKnownOutcomes :
         tasks' = [tasks EXCEPT ![d] =
                     AfterDiscover(session, ExceptException(WellKnownTier(session, d, wk), None).ret)]
    /\ UNCHANGED nonFanVars

\* The POST of d's coroutine is answered; the coroutine returns.
PostAnswer(d) ==
    /\ ~LoopBusy
    /\ tasks[d].pc = "post"
    /\ \E post \in PostOutcomes :
         tasks' = [tasks EXCEPT ![d] =
                     Task("done", tasks[d].server_url, post,
                          deliver_activity(session, tasks[d].server_url, post).ret)]
    /\ UNCHANGED nonFanVars

DeliveriesStarted == \E d \in FanOutTargets : StartDeliver(d)
SrvsAnswered == \E d \in FanOutTargets : SrvAnswer(d)
WellKnownsAnswered == \E d \in FanOutTargets : WkAnswer(d)
PostsAnswered == \E d \in FanOutTargets : PostAnswer(d)

FanNext ==
    \/ Initialize
    \/ DeliveriesStarted
    \/ SrvsAnswered
    \/ WellKnownsAnswered
    \/ PostsAnswered

SpecFanOut == Init /\ [][FanNext]_vars

\* The deliveries in flight: called and not yet returned.
InFlight == {d \in FanOutTargets : tasks[d].pc \in {"srv", "wk", "post"}}

\* The code has no setting for the maximum concurrency; the claim is stated for
\* a cap below the number of targets.
max_in_flight == Cardinality(FanOutTargets) - 1

\* C11: in a fan-out each target's outcome depends only on that target: a
\* delivery whose peer has answered is never kept waiting by another target's
\* delivery, and a delivery succeeds exactly when its own POST was answered
\* 200 or 202, so the successes are exactly the targets that answered success.
C11_TargetsIndependent ==
    \A d \in FanOutTargets :
        /\ tasks[d].pc = "wk" => ENABLED WkAnswer(d)
        /\ tasks[d].pc = "post" => ENABLED PostAnswer(d)
        /\ tasks[d].pc = "done" =>
              (tasks[d].delivered <=>
                  (tasks[d].post.exc = "none" /\ tasks[d].post.status \in {200, 202}))

\* C12: deliveries to distinct domains are in flight together, and never more
\* of them than the configured maximum.
C12_InFlightCapped == Cardinality(InFlight) <= max_in_flight

(***************************************************************************)
(* SocialInteractions: the statements                                      *)
(***************************************************************************)

\* A variant of the SELECT that leaves out the user.
SelectLike_AnyUser(rows, content_id, user_address) ==
    {x.id : x \in {r \in rows : r.content_id = content_id}}

\* SELECT id FROM content_interactions WHERE content_id = $1 AND
\* user_address = $2 AND interaction_type = 'like': the ids it may give (none
\* when the set is empty).
SelectLike(rows, content_id, user_address) ==
    {x.id : x \in {r \in rows : r.content_id = content_id /\ r.user_address = user_address}}

\* A variant of the SELECT that finds nothing.
SelectRepost_Nothing(rows, original_content_id, user_address) == {}

\* SELECT id FROM reposts WHERE original_content_id = $1 AND user_address = $2
SelectRepost(rows, original_content_id, user_address) ==
    {x.id : x \in {r \in rows : r.content_id = original_content_id
                                /\ r.user_address = user_address}}

\* UPDATE federated_content SET <field> = <field> + delta WHERE id = $1
UpdateCount(cnt, content_id, field, delta) ==
    IF content_id \in DOMAIN cnt
    THEN [cnt EXCEPT ![content_id][field] = @ + delta]
    ELSE cnt

\* A variant of comment_content that leaves the counter alone.
CommentCounted_NoUpdate(cnt, content_id) == cnt

\* comment_content's UPDATE ... SET comment_count = comment_count + 1
CommentCounted(cnt, content_id) == UpdateCount(cnt, content_id, "comment_count", 1)

\* A variant of the DELETE that leaves out the user_address.
DeletedRows_AnyUser(rows, content_id, user_address) ==
    {r \in rows : r.content_id = content_id}

\* The rows DELETE ... WHERE content_id = $1 AND user_address = $2 removes.
DeletedRows(rows, content_id, user_address) ==
    {r \in rows : r.content_id = content_id /\ r.user_address = user_address}

\* The rows ... FROM comments WHERE id = $1 AND user_address = $2 names.
CommentRows(rows, comment_id, user_address) ==
    {r \in rows : r.id = comment_id /\ r.user_address = user_address}

\* The first decimal digit of n.
RECURSIVE LeadingDigit(_)
LeadingDigit(n) == IF n < 10 THEN n ELSE LeadingDigit(n \div 10)

\* "DELETE 1" in result, the result of a DELETE of n rows being "DELETE n":
\* the decimal form of n starts with 1.
DeleteOneIn(n) == LeadingDigit(n) = 1

(***************************************************************************)
(* SocialInteractions: each operation run without interruption             *)
(***************************************************************************)

\* like_content(user_address, content_id)
LikeContent ==
    /\ \E user_address \in Users, content_id \in Contents :
        LET existing == SelectLike(likes, content_id, user_address)
        IN  IF existing # {}
            THEN /\ \E id \in existing :
                      ilast' = ICall("like_content", user_address, content_id, "already_liked", id)
                 /\ UNCHANGED tableVars
            ELSE /\ nextId <= MaxIds
                 /\ likes' = likes \cup {Row(nextId, content_id, user_address)}
                 /\ counts' = UpdateCount(counts, content_id, "like_count", 1)
                 /\ nextId' = nextId + 1
                 /\ ilast' = ICall("like_content", user_address, content_id, "liked", nextId)
                 /\ UNCHANGED <<comments, reposts>>
    /\ UNCHANGED <<calls, nonIntVars>>

\* unlike_content(user_address, content_id)
UnlikeContent ==
    /\ \E user_address \in Users, content_id \in Contents :
        LET deleted == DeletedRows(likes, content_id, user_address)
        IN  /\ likes' = likes \ deleted
            /\ IF DeleteOneIn(Cardinality(deleted))
               THEN /\ counts' = UpdateCount(counts, content_id, "like_count", -1)
                    /\ ilast' = ICall("unlike_content", user_address, content_id, "unliked", NoId)
               ELSE /\ counts' = counts
                    /\ ilast' = ICall("unlike_content", user_address, content_id, "not_liked", NoId)
    /\ UNCHANGED <<comments, reposts, nextId, calls, nonIntVars>>

\* comment_content(user_address, content_id, comment_text)
CommentContent ==
    /\ nextId <= MaxIds
    /\ \E user_address \in Users, content_id \in Contents :
        /\ comments' = comments \cup {Row(nextId, content_id, user_address)}
        /\ counts' = CommentCounted(counts, content_id)
        /\ ilast' = ICall("comment_content", user_address, content_id, "commented", nextId)
    /\ nextId' = nextId + 1
    /\ UNCHANGED <<likes, reposts, calls, nonIntVars>>

\* delete_comment(comment_id, user_address)
DeleteComment ==
    /\ \E comment_id \in 1..MaxIds, user_address \in Users :
        LET comment == CommentRows(comments, comment_id, user_address)
        IN  IF comment = {}
            THEN /\ ilast' = ICall("delete_comment", user_address, "none", "False", comment_id)
                 /\ UNCHANGED <<comments, counts>>
            ELSE /\ comments' = comments \ comment
                 /\ \E row \in comment :
                      IF DeleteOneIn(Cardinality(comment))
                      THEN /\ counts' = UpdateCount(counts, row.content_id, "comment_count", -1)
                           /\ ilast' = ICall("delete_comment", user_address, row.content_id,
                                             "True", comment_id)
                      ELSE /\ counts' = counts
                           /\ ilast' = ICall("delete_comment", user_address, row.content_id,
                                             "False", comment_id)
    /\ UNCHANGED <<likes, reposts, nextId, calls, nonIntVars>>

\* repost_content(user_address, original_content_id)
RepostContent ==
    /\ \E user_address \in Users, original_content_id \in Contents :
        LET existing == SelectRepost(reposts, original_content_id, user_address)
        IN  IF existing # {}
            THEN /\ \E id \in existing :
                      ilast' = ICall("repost_content", user_address, original_content_id,
                                     "already_reposted", id)
                 /\ UNCHANGED tableVars
            ELSE /\ nextId <= MaxIds
                 /\ reposts' = reposts \cup {Row(nextId, original_content_id, user_address)}
                 /\ counts' = UpdateCount(counts, original_content_id, "repost_count", 1)
                 /\ nextId' = nextId + 1
                 /\ ilast' = ICall("repost_content", user_address, original_content_id,
                                   "reposted", nextId)
                 /\ UNCHANGED <<likes, comments>>
    /\ UNCHANGED <<calls, nonIntVars>>

(***************************************************************************)
(* MetaFederateProtocol: the Unlike activity                               *)
(***************************************************************************)

\* The methods the class MetaFederateProtocol defines.
ProtocolMethods ==
    {"handle_activity", "_handle_follow", "_handle_like", "_handle_unlike",
     "_handle_comment", "_handle_quote", "_handle_repost", "_handle_thread",
     "_handle_message", "_can_interact", "_is_blocked"}

\* await self.<method>(...): the value the method gives, or the AttributeError
\* of a method the class does not have.
SelfCall(method, value) ==
    IF method \in ProtocolMethods THEN Return(value) ELSE Raise("AttributeError", value)

\* _handle_unlike(activity), success being what _remove_like would give.
handle_unlike(success) ==
    LET removed == SelfCall("_remove_like", success)
    IN  IF removed.exc # "none" THEN removed
        ELSE Return(IF removed.ret THEN "unliked" ELSE "not_found")

\* What _remove_like may give: nothing is drawn for a method that is not there.
RemoveLikeAnswers == IF "_remove_like" \in ProtocolMethods THEN BOOLEAN ELSE {FALSE}

\* handle_activity({"type": "Undo", "actor": ..., "object": ...}), "Undo" being
\* ActivityType.UNLIKE.value: the
\* status of the dictionary it returns, "error" for {"error": str(e)}.
\* The class holds no database: no table changes.
HandleUnlike ==
    /\ \E actor \in Users, object \in Contents, success \in RemoveLikeAnswers :
        LET outcome == handle_unlike(IF success THEN "True" ELSE "False")
        IN  ilast' = ICall("handle_activity", actor, object,
                           IF outcome.exc # "none" THEN "error" ELSE outcome.ret, NoId)
    /\ UNCHANGED <<tableVars, calls, nonIntVars>>

IntNext ==
    \/ LikeContent
    \/ UnlikeContent
    \/ CommentContent
    \/ DeleteComment
    \/ RepostContent
    \/ HandleUnlike

SpecInteractions == Init /\ [][IntNext]_vars

(***************************************************************************)
(* SocialInteractions.like_content, its statements interleaved             *)
(***************************************************************************)

\* like_content(user_address, content_id) is called by coroutine k and runs
\* its SELECT: it returns already_liked, or goes on to its INSERT.
LikeSelect(k) ==
    /\ calls[k].pc = "idle"
    /\ \E user_address \in Users, content_id \in Contents :
        LET existing == SelectLike(likes, content_id, user_address)
        IN  IF existing # {}
            THEN \E id \in existing :
                    calls' = [calls EXCEPT ![k] =
                                LikeCall("done", user_address, content_id, id, "already_liked")]
            ELSE calls' = [calls EXCEPT ![k] =
                                LikeCall("insert", user_address, content_id, NoId, "none")]
    /\ UNCHANGED <<tableVars, ilast, nonIntVars>>

\* Coroutine k draws its uuid and runs its INSERT.
LikeInsert(k) ==
    /\ calls[k].pc = "insert"
    /\ nextId <= MaxIds
    /\ likes' = likes \cup {Row(nextId, calls[k].content_id, calls[k].user_address)}
    /\ nextId' = nextId + 1
    /\ calls' = [calls EXCEPT ![k].pc = "update", ![k].like_id = nextId]
    /\ UNCHANGED <<comments, reposts, counts, ilast, nonIntVars>>

\* Coroutine k runs its UPDATE and returns liked.
LikeUpdate(k) ==
    /\ calls[k].pc = "update"
    /\ counts' = UpdateCount(counts, calls[k].content_id, "like_count", 1)
    /\ calls' = [calls EXCEPT ![k].pc = "done", ![k].status = "liked"]
    /\ UNCHANGED <<likes, comments, reposts, nextId, ilast, nonIntVars>>

LikeSelects == \E k \in CallIds : LikeSelect(k)
LikeInserts == \E k \in CallIds : LikeInsert(k)
LikeUpdates == \E k \in CallIds : LikeUpdate(k)

LikeRaceNext ==
    \/ LikeSelects
    \/ LikeInserts
    \/ LikeUpdates

SpecLikeRace == Init /\ [][LikeRaceNext]_vars

(***************************************************************************)
(* Claims: likes, reposts and comments                                     *)
(***************************************************************************)

LikeRows(user_address, content_id) ==
    {r \in likes : r.user_address = user_address /\ r.content_id = content_id}

RepostRows(user_address, content_id) ==
    {r \in reposts : r.user_address = user_address /\ r.content_id = content_id}

CommentsOn(rows, content_id) == {r \in rows : r.content_id = content_id}

RowIds(rows) == {r.id : r \in rows}

\* C13: a like_content call by an actor who has no like on the content returns
\* 'liked', adds one like row under the returned id and raises the content's
\* like_count by exactly 1; a call by an actor whose like exists (the second
\* of two calls) returns 'already_liked' with the id of that like, adds no row
\* and leaves like_count unchanged.
C13_LikeTwice ==
    [][ilast'.op = "like_content" =>
          LET u == ilast'.user_address
              c == ilast'.content_id
          IN  IF LikeRows(u, c) = {}
              THEN /\ ilast'.status = "liked"
                   /\ ilast'.id \notin RowIds(likes)
                   /\ likes' = likes \cup {Row(ilast'.id, c, u)}
                   /\ counts' = [counts EXCEPT ![c].like_count = @ + 1]
              ELSE /\ ilast'.status = "already_liked"
                   /\ ilast'.id \in RowIds(LikeRows(u, c))
                   /\ likes' = likes
                   /\ counts' = counts]_vars

\* The second of two like_content calls has returned: the like is there, it
\* was counted once, and the call gave its id back.
C13_Witness ==
    /\ ilast.op = "like_content"
    /\ ilast.status = "already_liked"
    /\ LikeRows(ilast.user_address, ilast.content_id)
         = {Row(ilast.id, ilast.content_id, ilast.user_address)}
    /\ counts[ilast.content_id].like_count = 1

AllCallsDone == \A k \in CallIds : calls[k].pc = "done"

SameLike == \A j, k \in CallIds :
    /\ calls[j].user_address = calls[k].user_address
    /\ calls[j].content_id = calls[k].content_id

\* C14: once concurrent like_content calls by one actor on one content have
\* all returned, whatever the interleaving of their statements, exactly one
\* like row of that actor on that content exists and like_count has risen by
\* exactly 1 (from 0).
C14_ConcurrentLikesIdempotent ==
    (AllCallsDone /\ SameLike) =>
        \A k \in CallIds :
            /\ Cardinality(LikeRows(calls[k].user_address, calls[k].content_id)) = 1
            /\ counts[calls[k].content_id].like_count = 1

\* C15: an Unlike, through unlike_content or through the protocol's handler,
\* removes the actor's like when there is one, lowers like_count by exactly 1
\* and reports 'unliked'; with no such like it reports a not-found status and
\* changes neither the like rows nor like_count.
C15_UnlikeExact ==
    [][ilast'.op \in {"unlike_content", "handle_activity"} =>
          LET u == ilast'.user_address
              c == ilast'.content_id
          IN  IF LikeRows(u, c) # {}
              THEN /\ ilast'.status = "unliked"
                   /\ likes' = likes \ LikeRows(u, c)
                   /\ counts' = [counts EXCEPT ![c].like_count = @ - 1]
              ELSE /\ ilast'.status \in {"not_liked", "not_found"}
                   /\ likes' = likes
                   /\ counts' = counts]_vars

\* C16: a repost_content call by an actor who has no repost of the content
\* returns 'reposted', adds one repost row and raises repost_count by 1; a
\* repeated call returns 'already_reposted' with the id of the existing
\* repost, adds no row and leaves repost_count unchanged.
C16_RepostOnce ==
    [][ilast'.op = "repost_content" =>
          LET u == ilast'.user_address
              c == ilast'.content_id
          IN  IF RepostRows(u, c) = {}
              THEN /\ ilast'.status = "reposted"
                   /\ ilast'.id \notin RowIds(reposts)
                   /\ reposts' = reposts \cup {Row(ilast'.id, c, u)}
                   /\ counts' = [counts EXCEPT ![c].repost_count = @ + 1]
              ELSE /\ ilast'.status = "already_reposted"
                   /\ ilast'.id \in RowIds(RepostRows(u, c))
                   /\ reposts' = reposts
                   /\ counts' = counts]_vars

\* A repeated repost has returned: one repost row, counted once.
C16_Witness ==
    /\ ilast.op = "repost_content"
    /\ ilast.status = "already_reposted"
    /\ RepostRows(ilast.user_address, ilast.content_id)
         = {Row(ilast.id, ilast.content_id, ilast.user_address)}
    /\ counts[ilast.content_id].repost_count = 1

\* C17: every comment_content call adds a comment row under a new id and raises
\* the content's comment_count by 1; delete_comment removes the comment and
\* lowers the count by 1 when its caller wrote the comment and changes nothing
\* otherwise; after every call the comment_count of each content is the number
\* of its comment rows.
C17_CommentCountExact ==
    [][/\ ilast'.op = "comment_content" =>
            /\ ilast'.status = "commented"
            /\ ilast'.id \notin RowIds(comments)
            /\ comments' = comments \cup {Row(ilast'.id, ilast'.content_id, ilast'.user_address)}
            /\ counts' = [counts EXCEPT ![ilast'.content_id].comment_count = @ + 1]
       /\ ilast'.op = "delete_comment" =>
            LET own == {r \in comments : r.id = ilast'.id
                                         /\ r.user_address = ilast'.user_address}
            IN  IF own = {}
                THEN /\ ilast'.status = "False"
                     /\ comments' = comments
                     /\ counts' = counts
                ELSE /\ ilast'.status = "True"
                     /\ comments' = comments \ own
                     /\ counts' = [counts EXCEPT ![ilast'.content_id].comment_count = @ - 1]
       /\ \A c \in Contents :
            counts'[c].comment_count = Cardinality(CommentsOn(comments', c))]_vars

\* Two identical comment_content calls have left two comments, and a
\* delete_comment by somebody else than the author of a comment has returned.
C17_Witness ==
    /\ ilast.op = "delete_comment"
    /\ ilast.status = "False"
    /\ \E r \in comments : r.id = ilast.id /\ r.user_address # ilast.user_address
    /\ \E r1, r2 \in comments :
          /\ r1.id # r2.id
          /\ r1.user_address = r2.user_address
          /\ r1.content_id = r2.content_id
          /\ counts[r1.content_id].comment_count >= 2

(***************************************************************************)
(* SocialGraph                                                             *)
(***************************************************************************)

\* A table after a statement, with what the call returns.
Outcome(r, ret) == [rel |-> r, ret |-> ret]

\* A variant of the DELETE that leaves out the relationship_type.
DeleteRelationship_AnyType(r, user_address, target_address, type) ==
    IF r[<<user_address, target_address>>] # "none"
    THEN [rel |-> [r EXCEPT ![<<user_address, target_address>>] = "none"], n |-> 1]
    ELSE [rel |-> r, n |-> 0]

\* DELETE FROM user_relationships WHERE user_address = $1 AND target_user = $2
\* AND relationship_type = <type>: the table left and the number of rows gone.
DeleteRelationship(r, user_address, target_address, type) ==
    IF r[<<user_address, target_address>>] = type
    THEN [rel |-> [r EXCEPT ![<<user_address, target_address>>] = "none"], n |-> 1]
    ELSE [rel |-> r, n |-> 0]

\* INSERT INTO user_relationships ... ON CONFLICT (user_address, target_user)
\* DO UPDATE SET relationship_type = <type>
Upsert(r, user_address, target_address, type) ==
    [r EXCEPT ![<<user_address, target_address>>] = type]

\* "INSERT" in result or "UPDATE" in result, the result of the upsert being
\* "INSERT 0 1" whether the row was inserted or updated.
UpsertDone == TRUE

\* get_relationship(user_address, target_address): the value of the
\* RelationshipStatus it returns.
get_relationship(r, user_address, target_address) ==
    IF user_address = target_address THEN "none"
    ELSE IF r[<<user_address, target_address>>] = "follow" THEN "following"
    ELSE IF r[<<user_address, target_address>>] = "block" THEN "blocking"
    ELSE IF r[<<target_address, user_address>>] = "follow" THEN "followed_by"
    ELSE IF r[<<target_address, user_address>>] = "block" THEN "blocked_by"
    ELSE "none"

\* A variant of the test that takes no two addresses for the same.
SameUser_Never(user_address, target_address) == FALSE

\* user_address == target_address, the first test of follow and of block
SameUser(user_address, target_address) == user_address = target_address

\* follow(user_address, target_address)
follow(r, user_address, target_address) ==
    IF SameUser(user_address, target_address) THEN Outcome(r, FALSE)
    ELSE IF get_relationship(r, user_address, target_address) \in {"following", "blocking"}
    THEN Outcome(r, FALSE)
    ELSE Outcome(Upsert(r, user_address, target_address, "follow"), UpsertDone)

\* unfollow(user_address, target_address)
unfollow(r, user_address, target_address) ==
    LET result == DeleteRelationship(r, user_address, target_address, "follow")
    IN  Outcome(result.rel, DeleteOneIn(result.n))

\* A variant of block that removes the blocker's own follow only.
BlockUnfollows_OwnOnly(r, user_address, target_address) ==
    unfollow(r, user_address, target_address).rel

\* block: await self.unfollow(user_address, target_address);
\*        await self.unfollow(target_address, user_address)
BlockUnfollows(r, user_address, target_address) ==
    unfollow(unfollow(r, user_address, target_address).rel,
             target_address, user_address).rel

\* block(user_address, target_address)
block(r, user_address, target_address) ==
    IF SameUser(user_address, target_address) THEN Outcome(r, FALSE)
    ELSE Outcome(Upsert(BlockUnfollows(r, user_address, target_address),
                        user_address, target_address, "block"),
                 UpsertDone)

\* unblock(user_address, target_address)
unblock(r, user_address, target_address) ==
    LET result == DeleteRelationship(r, user_address, target_address, "block")
    IN  Outcome(result.rel, DeleteOneIn(result.n))

\* follow(u, t), run without interruption.
Follow ==
    /\ \E u, t \in Addresses :
        /\ rel' = follow(rel, u, t).rel
        /\ slast' = SCall("follow", u, t, follow(rel, u, t).ret)
    /\ UNCHANGED nonSocVars

\* unfollow(u, t), run without interruption.
Unfollow ==
    /\ \E u, t \in Addresses :
        /\ rel' = unfollow(rel, u, t).rel
        /\ slast' = SCall("unfollow", u, t, unfollow(rel, u, t).ret)
    /\ UNCHANGED nonSocVars

\* block(u, t), run without interruption.
Block ==
    /\ \E u, t \in Addresses :
        /\ rel' = block(rel, u, t).rel
        /\ slast' = SCall("block", u, t, block(rel, u, t).ret)
    /\ UNCHANGED nonSocVars

\* unblock(u, t), run without interruption.
Unblock ==
    /\ \E u, t \in Addresses :
        /\ rel' = unblock(rel, u, t).rel
        /\ slast' = SCall("unblock", u, t, unblock(rel, u, t).ret)
    /\ UNCHANGED nonSocVars

SocNext ==
    \/ Follow
    \/ Unfollow
    \/ Block
    \/ Unblock

SpecSocial == Init /\ [][SocNext]_vars

(***************************************************************************)
(* Claims: follow and block                                                *)
(***************************************************************************)

FollowEdge(u, t) == rel[<<u, t>>] = "follow"
BlockEdge(u, t) == rel[<<u, t>>] = "block"

\* C18: while the block edge of the target on the actor exists (block(T, A)
\* has succeeded), follow(A, T) creates no follow edge from A to T.
C18_BlockedActorCannotFollow ==
    [][(slast'.op = "follow" /\ BlockEdge(slast'.target_address, slast'.user_address))
          => rel'[<<slast'.user_address, slast'.target_address>>] # "follow"]_vars

\* C19: follow(A, T) while A already follows T leaves every relationship edge
\* as it was and returns success.
C19_RefollowNoOpSuccess ==
    [][(slast'.op = "follow" /\ FollowEdge(slast'.user_address, slast'.target_address))
          => (rel' = rel /\ slast'.ret = TRUE)]_vars

C21_UnfollowMissingNoOp ==
    [][(slast'.op = "unfollow" /\ ~FollowEdge(slast'.user_address, slast'.target_address))
          => (slast'.ret = FALSE /\ rel' = rel)]_vars

\* unfollow(A, T) has returned False where A blocks T and T blocks A: both
\* block edges are still there.
C21_Witness ==
    /\ slast.op = "unfollow"
    /\ slast.ret = FALSE
    /\ slast.user_address # slast.target_address
    /\ BlockEdge(slast.user_address, slast.target_address)
    /\ BlockEdge(slast.target_address, slast.user_address)

(***************************************************************************)
(* MetaFederateProtocol.handle_activity                                    *)
(***************************************************************************)

\* class ActivityType(Enum): the value of each member (members that repeat a
\* value are aliases of the first member with that value).
ActivityType ==
    [CREATE |-> "Create", UPDATE |-> "Update", DELETE |-> "Delete",
     FOLLOW |-> "Follow", BLOCK |-> "Block", LIKE |-> "Like", UNLIKE |-> "Undo",
     COMMENT |-> "Create", QUOTE |-> "Create", REPOST |-> "Announce",
     THREAD |-> "Create", MENTION |-> "Mention", REACTION |-> "Like",
     MESSAGE |-> "Message"]

\* The 'type' values handle_activity is given: the enumerated ones and one
\* that is not.
TypeValues == {ActivityType[m] : m \in DOMAIN ActivityType} \cup {"Unknown"}

\* The 'object' values handle_activity is given.
ProtocolObjects ==
    {Obj("missing", "missing", "missing", "missing"),
     Obj("str", "missing", "missing", "missing"),
     Obj("dict", "Thread", "missing", "missing"),
     Obj("dict", "Note", "missing", "missing"),
     Obj("dict", "missing", "missing", "missing"),
     Obj("dict", "missing", "alice@a.example", "bob@b.example"),
     Obj("dict", "missing", "bob@b.example", "alice@a.example"),
     Obj("dict", "missing", "alice@a.example", "missing"),
     Obj("dict", "missing", "missing", "bob@b.example")}

\* The activities handle_activity is given.
ProtocolActivities ==
    {Activity(type, has_actor, object) :
        type \in TypeValues, has_actor \in BOOLEAN, object \in ProtocolObjects}

NoDict == Dict("none", "none")

\* activity['actor']; activity['object']
ActorAndObject(activity) ==
    IF ~activity.has_actor THEN "KeyError"
    ELSE IF activity.object.kind = "missing" THEN "KeyError"
    ELSE "none"

\* <object>.get(key): a str has no get.
ObjectGet(object) == IF object.kind = "dict" THEN "none" ELSE "AttributeError"

\* <object>[key]: a str takes no str index, a dict may lack the key.
ObjectItem(object, value) ==
    IF object.kind # "dict" THEN "TypeError"
    ELSE IF value = "missing" THEN "KeyError"
    ELSE "none"

\* _can_interact(actor, target_content)
can_interact(actor, target_content) == TRUE

\* _is_blocked(actor, target)
is_blocked(actor, target) == FALSE

\* A handler that reads its arguments (the exception that raises, or "none"),
\* then returns the status refused when allowed is false, and otherwise awaits
\* self.<store>(...) and returns the status stored.
Handler(arguments, allowed, refused, store, stored) ==
    IF arguments # "none" THEN Raise(arguments, NoDict)
    ELSE IF ~allowed THEN Return(Dict("status", refused))
    ELSE IF SelfCall(store, "id").exc # "none" THEN Raise(SelfCall(store, "id").exc, NoDict)
    ELSE Return(Dict("status", stored))

\* _handle_follow(activity)
handle_follow(activity) ==
    Handler(ActorAndObject(activity), ~is_blocked("actor", "object"), "blocked",
            "_add_follower", "success")

\* _handle_like(activity)
handle_like(activity) ==
    Handler(ActorAndObject(activity), can_interact("actor", "object"), "not_allowed",
            "_store_like", "liked")

\* _handle_unlike(activity)
handle_undo(activity) ==
    IF ActorAndObject(activity) # "none" THEN Raise(ActorAndObject(activity), NoDict)
    ELSE IF handle_unlike("True").exc # "none" THEN Raise(handle_unlike("True").exc, NoDict)
    ELSE Return(Dict("status", handle_unlike("True").ret))

\* _handle_comment(activity)
handle_comment(activity) ==
    Handler(IF ActorAndObject(activity) # "none" THEN ActorAndObject(activity)
            ELSE ObjectGet(activity.object),
            can_interact("actor", "inReplyTo"), "not_allowed",
            "_store_comment", "commented")

\* _handle_quote(activity)
handle_quote(activity) ==
    Handler(IF ActorAndObject(activity) # "none" THEN ActorAndObject(activity)
            ELSE ObjectGet(activity.object),
            can_interact("actor", "quoteOf"), "not_allowed",
            "_store_quote", "quoted")

\* _handle_repost(activity)
handle_repost(activity) ==
    Handler(ActorAndObject(activity), can_interact("actor", "object"), "not_allowed",
            "_store_repost", "reposted")

\* _handle_thread(activity)
handle_thread(activity) ==
    Handler(IF ActorAndObject(activity) # "none" THEN ActorAndObject(activity)
            ELSE ObjectGet(activity.object),
            activity.object.type = "Thread", "invalid_thread_data",
            "_create_thread", "thread_created")

\* _handle_message(activity)
handle_message(activity) ==
    Handler(IF activity.object.kind = "missing" THEN "KeyError"
            ELSE IF ObjectItem(activity.object, activity.object.from) # "none"
                 THEN ObjectItem(activity.object, activity.object.from)
            ELSE ObjectItem(activity.object, activity.object.to),
            ~is_blocked(activity.object.from, activity.object.to), "blocked",
            "_store_message", "delivered")

\* The if / elif chain of handle_activity, taken in its order.
Dispatch(activity) ==
    IF activity.type = ActivityType.FOLLOW THEN handle_follow(activity)
    ELSE IF activity.type = ActivityType.BLOCK THEN Raise(SelfCall("_handle_block", "id").exc, NoDict)
    ELSE IF activity.type = ActivityType.LIKE THEN handle_like(activity)
    ELSE IF activity.type = ActivityType.UNLIKE THEN handle_undo(activity)
    ELSE IF activity.type = ActivityType.COMMENT THEN handle_comment(activity)
    ELSE IF activity.type = ActivityType.QUOTE THEN handle_quote(activity)
    ELSE IF activity.type = ActivityType.REPOST THEN handle_repost(activity)
    ELSE IF activity.type = ActivityType.THREAD THEN handle_thread(activity)
    ELSE IF activity.type = ActivityType.MESSAGE THEN handle_message(activity)
    ELSE Return(Dict("error", "Unsupported activity type"))

\* handle_activity(activity): try: <chain> except Exception as e:
\* return {"error": str(e)}
handle_activity(activity) ==
    IF Dispatch(activity).exc # "none"
    THEN Return(Dict("error", Dispatch(activity).exc))
    ELSE Dispatch(activity)

\* handle_activity(activity). The class holds no database: no table changes.
HandleActivity ==
    /\ \E activity \in ProtocolActivities :
         plast' = PCall(activity, handle_activity(activity).ret, handle_activity(activity).exc)
    /\ UNCHANGED nonProVars

ProNext == HandleActivity

SpecProtocol == Init /\ [][ProNext]_vars

\* handle_activity(activity) for a Message activity.
HandleMessage ==
    /\ \E activity \in {a \in ProtocolActivities : a.type = ActivityType.MESSAGE} :
         plast' = PCall(activity, handle_activity(activity).ret, handle_activity(activity).exc)
    /\ UNCHANGED nonProVars

\* Message activities arriving while users block one another.
MessageNext ==
    \/ HandleMessage
    \/ Block

SpecMessageActivity == Init /\ [][MessageNext]_vars

(***************************************************************************)
(* Claims: the protocol's handlers                                         *)
(***************************************************************************)

ThreadDescriptor(object) == object.kind = "dict" /\ object.type = "Thread"

\* C22: a 'Create' activity with an actor whose object is a thread descriptor
\* (a dictionary of type 'Thread') returns status thread_created; with any
\* other object it does not, and no table changes.
C22_ThreadCreated ==
    [][(plast'.activity.type = "Create" /\ plast'.activity.has_actor) =>
          IF ThreadDescriptor(plast'.activity.object)
          THEN plast'.result = Dict("status", "thread_created")
          ELSE /\ plast'.result.value # "thread_created"
               /\ UNCHANGED <<tableVars, rel, msgs>>]_vars

MessageParties(object) ==
    /\ object.kind = "dict"
    /\ object.from # "missing"
    /\ object.to # "missing"

\* C23: a Message activity whose sender blocks its receiver, or whose receiver
\* blocks its sender, returns status 'blocked' and stores no message.
C23_BlockedMessageNotStored ==
    [][(/\ plast'.activity.type = "Message"
        /\ MessageParties(plast'.activity.object)
        /\ \/ BlockEdge(plast'.activity.object.from, plast'.activity.object.to)
           \/ BlockEdge(plast'.activity.object.to, plast'.activity.object.from))
          => (plast'.result = Dict("status", "blocked") /\ msgs' = msgs)]_vars

\* The activities that carry what the handler of their type reads.
WellFormed(activity) ==
    /\ activity.has_actor \/ activity.type = "Message"
    /\ activity.object.kind # "missing"
    /\ activity.type \in {"Create"} => activity.object.kind = "dict"
    /\ activity.type = "Message" => MessageParties(activity.object)

Enumerated(activity) == activity.type \in {ActivityType[m] : m \in DOMAIN ActivityType}

\* C24: for a well-formed activity of an enumerated type handle_activity does
\* not raise and returns a dictionary with a 'status' key.
C24_StatusForWellFormed ==
    (plast.activity.type # "__init__" /\ Enumerated(plast.activity) /\ WellFormed(plast.activity))
        => (plast.raised = "none" /\ plast.result.key = "status")

(***************************************************************************)
(* Crypto: the primitives                                                  *)
(***************************************************************************)

\* serialization.load_pem_public_key(pem): the key pair whose public key the
\* PEM holds, or ValueError.
load_pem_public_key(pem) ==
    IF pem.kind = "public" THEN Return(pem.pair) ELSE Raise("ValueError", "none")

\* serialization.load_pem_private_key(pem, password=None)
load_pem_private_key(pem) ==
    IF pem.kind = "private" THEN Return(pem.pair) ELSE Raise("ValueError", "none")

\* The UTF-8 bytes of one code point.
Utf8Bytes(cp) ==
    IF cp < 128 THEN <<cp>>
    ELSE IF cp < 2048 THEN <<192 + (cp \div 64), 128 + (cp % 64)>>
    ELSE IF cp < 65536
         THEN <<224 + (cp \div 4096), 128 + ((cp \div 64) % 64), 128 + (cp % 64)>>
    ELSE <<240 + (cp \div 262144), 128 + ((cp \div 4096) % 64),
           128 + ((cp \div 64) % 64), 128 + (cp % 64)>>

RECURSIVE Utf8All(_)
Utf8All(text) ==
    IF text = << >> THEN << >> ELSE Utf8Bytes(Head(text)) \o Utf8All(Tail(text))

\* str.encode('utf-8'): a lone surrogate cannot be encoded.
Utf8Encode(text) ==
    IF \E i \in 1..Len(text) : text[i] \in 55296..57343
    THEN Raise("UnicodeEncodeError", << >>)
    ELSE Return(Utf8All(text))

\* The bytes the first code point of a UTF-8 byte string takes (0: none does).
Utf8Width(bytes) ==
    IF bytes[1] < 128 THEN 1
    ELSE IF bytes[1] \in 194..223 /\ Len(bytes) >= 2 THEN 2
    ELSE IF bytes[1] \in 224..239 /\ Len(bytes) >= 3 THEN 3
    ELSE IF bytes[1] \in 240..244 /\ Len(bytes) >= 4 THEN 4
    ELSE 0

\* The code point those bytes encode.
Utf8Point(bytes, width) ==
    IF width = 1 THEN bytes[1]
    ELSE IF width = 2 THEN (bytes[1] - 192) * 64 + (bytes[2] - 128)
    ELSE IF width = 3
         THEN (bytes[1] - 224) * 4096 + (bytes[2] - 128) * 64 + (bytes[3] - 128)
    ELSE (bytes[1] - 240) * 262144 + (bytes[2] - 128) * 4096
         + (bytes[3] - 128) * 64 + (bytes[4] - 128)

RECURSIVE Utf8Valid(_)
Utf8Valid(bytes) ==
    IF bytes = << >> THEN TRUE
    ELSE /\ Utf8Width(bytes) > 0
         /\ \A i \in 2..Utf8Width(bytes) : bytes[i] \in 128..191
         /\ Utf8Valid(SubSeq(bytes, Utf8Width(bytes) + 1, Len(bytes)))

RECURSIVE Utf8Points(_)
Utf8Points(bytes) ==
    IF bytes = << >> THEN << >>
    ELSE <<Utf8Point(bytes, Utf8Width(bytes))>>
         \o Utf8Points(SubSeq(bytes, Utf8Width(bytes) + 1, Len(bytes)))

\* A variant of the decoding that takes every byte for a code point.
Utf8Decode_Latin1(bytes) == Return(bytes)

\* bytes.decode('utf-8')
Utf8Decode(bytes) ==
    IF Utf8Valid(bytes) THEN Return(Utf8Points(bytes))
    ELSE Raise("UnicodeDecodeError", << >>)

\* base64.b64decode(string): the bytes, or binascii.Error for a string that
\* is not valid base64.
B64Decode(string) ==
    IF string.valid THEN Return(string.raw) ELSE Raise("binascii.Error", string.raw)

\* Fernet(key).decrypt(token): the data, or InvalidToken when the token does
\* not authenticate under the key.
FernetDecrypt(key, token) ==
    IF token.mac /\ token.key = key THEN Return(token.data)
    ELSE Raise("InvalidToken", << >>)

\* private_key.decrypt(ciphertext, OAEP): the message, or ValueError when the
\* padding check fails (another key, or altered bytes).
RsaDecrypt(pair, ciphertext) ==
    IF ciphertext.intact /\ ciphertext.pair = pair THEN Return(ciphertext.message)
    ELSE Raise("ValueError", "none")

\* private_key.sign(data, PSS, SHA256)
RsaSign(pair, data) == [pair |-> pair, data |-> data, intact |-> TRUE]

\* public_key.verify(signature, data, PSS, SHA256): returns, or raises
\* InvalidSignature.
RsaVerify(pair, signature, data) ==
    IF signature.intact /\ signature.pair = pair /\ signature.data = data
    THEN Return(TRUE)
    ELSE Raise("InvalidSignature", FALSE)

(***************************************************************************)
(* Crypto: encrypt_message, decrypt_message, generate_signature,           *)
(* verify_signature                                                        *)
(***************************************************************************)

\* encrypt_message(plaintext, public_key_pem), symmetric_key being what
\* Fernet.generate_key() gives.
encrypt_message(plaintext, public_key_pem, symmetric_key) ==
    LET public_key == load_pem_public_key(public_key_pem)
        encoded == Utf8Encode(plaintext)
    IN  IF public_key.exc # "none" THEN Raise(public_key.exc, NoEncryptedData)
        ELSE IF encoded.exc # "none" THEN Raise(encoded.exc, NoEncryptedData)
        ELSE Return(EncryptedData(
                        B64Encode(FernetEncrypt(symmetric_key, encoded.ret)),
                        B64Encode(RsaEncrypt(public_key.ret, symmetric_key)),
                        "RSA-OAEP+AES256"))

\* decrypt_message(encrypted_data, private_key_pem)
decrypt_message(encrypted_data, private_key_pem) ==
    LET private_key == load_pem_private_key(private_key_pem)
        encrypted_key == B64Decode(encrypted_data.encrypted_key)
        symmetric_key == RsaDecrypt(private_key.ret, encrypted_key.ret)
        ciphertext == B64Decode(encrypted_data.ciphertext)
        plaintext == FernetDecrypt(symmetric_key.ret, ciphertext.ret)
    IN  IF private_key.exc # "none" THEN Raise(private_key.exc, EmptyText)
        ELSE IF encrypted_key.exc # "none" THEN Raise(encrypted_key.exc, EmptyText)
        ELSE IF symmetric_key.exc # "none" THEN Raise(symmetric_key.exc, EmptyText)
        ELSE IF ciphertext.exc # "none" THEN Raise(ciphertext.exc, EmptyText)
        ELSE IF plaintext.exc # "none" THEN Raise(plaintext.exc, EmptyText)
        ELSE Utf8Decode(plaintext.ret)

\* Optional[str]: a text, or None.
SomeText(text) == [some |-> TRUE, text |-> text]
NoText == [some |-> FALSE, text |-> EmptyText]

\* MessageManager.decrypt_message(encrypted_message, private_key): the
\* message's columns handed to Crypto.decrypt_message, any exception printed
\* and turned into None.
manager_decrypt_message(encrypted_data, private_key) ==
    IF decrypt_message(encrypted_data, private_key).exc # "none"
    THEN Return(NoText)
    ELSE Return(SomeText(decrypt_message(encrypted_data, private_key).ret))

NoSignature == B64Encode(RsaSign("none", << >>))

\* generate_signature(data, private_key_pem)
generate_signature(data, private_key_pem) ==
    LET private_key == load_pem_private_key(private_key_pem)
        encoded == Utf8Encode(data)
    IN  IF private_key.exc # "none" THEN Raise(private_key.exc, NoSignature)
        ELSE IF encoded.exc # "none" THEN Raise(encoded.exc, NoSignature)
        ELSE Return(B64Encode(RsaSign(private_key.ret, encoded.ret)))

\* verify_signature(data, signature, public_key_pem): the key is loaded and
\* the signature decoded before the try block; inside it every exception
\* gives False.
verify_signature(data, signature, public_key_pem) ==
    LET public_key == load_pem_public_key(public_key_pem)
        signature_bytes == B64Decode(signature)
        encoded == Utf8Encode(data)
    IN  IF public_key.exc # "none" THEN Raise(public_key.exc, FALSE)
        ELSE IF signature_bytes.exc # "none" THEN Raise(signature_bytes.exc, FALSE)
        ELSE IF encoded.exc # "none" THEN Return(FALSE)
        ELSE ExceptException(RsaVerify(public_key.ret, signature_bytes.ret, encoded.ret),
                             FALSE)

\* What may happen to an encrypted_data dictionary between encrypt_message
\* and decrypt_message.
Tamperings ==
    {"none", "ciphertext", "ciphertext_base64", "encrypted_key",
     "encrypted_key_base64", "algorithm"}

Tamper(encrypted_data, how) ==
    CASE how = "none" -> encrypted_data
      [] how = "ciphertext" -> [encrypted_data EXCEPT !.ciphertext.raw.mac = FALSE]
      [] how = "ciphertext_base64" -> [encrypted_data EXCEPT !.ciphertext.valid = FALSE]
      [] how = "encrypted_key" -> [encrypted_data EXCEPT !.encrypted_key.raw.intact = FALSE]
      [] how = "encrypted_key_base64" -> [encrypted_data EXCEPT !.encrypted_key.valid = FALSE]
      [] how = "algorithm" -> [encrypted_data EXCEPT !.algorithm = "ROT13"]

\* What may happen to a signature string between generate_signature and
\* verify_signature: nothing, other bytes in valid base64, or a character
\* that leaves the string no valid base64.
SignatureTamperings == {"none", "bytes", "base64"}

TamperSignature(signature, how) ==
    CASE how = "none" -> signature
      [] how = "bytes" -> [signature EXCEPT !.raw.intact = FALSE]
      [] how = "base64" -> [signature EXCEPT !.valid = FALSE]

EncryptMessage ==
    /\ \E plaintext \in Texts, public_key_pem \in PublicKeyPems,
          symmetric_key \in SymmetricKeys :
         clast' = CCall("encrypt_message", plaintext, public_key_pem, "none",
                        EmptyText, NoPem,
                        encrypt_message(plaintext, public_key_pem, symmetric_key))
    /\ UNCHANGED nonCryVars

\* decrypt_message on what encrypt_message returned, altered or not.
DecryptMessage ==
    /\ clast.op = "encrypt_message"
    /\ clast.out.exc = "none"
    /\ \E how \in Tamperings, private_key_pem \in PrivateKeyPems :
         clast' = CCall("decrypt_message", clast.text, clast.pem, how,
                        EmptyText, private_key_pem,
                        decrypt_message(Tamper(clast.out.ret, how), private_key_pem))
    /\ UNCHANGED nonCryVars

\* MessageManager.decrypt_message on what encrypt_message returned.
ManagerDecryptMessage ==
    /\ clast.op = "encrypt_message"
    /\ clast.out.exc = "none"
    /\ \E how \in Tamperings, private_key \in PrivateKeyPems :
         clast' = CCall("MessageManager.decrypt_message", clast.text, clast.pem, how,
                        EmptyText, private_key,
                        manager_decrypt_message(Tamper(clast.out.ret, how), private_key))
    /\ UNCHANGED nonCryVars

GenerateSignature ==
    /\ \E data \in Texts, private_key_pem \in PrivateKeyPems :
         clast' = CCall("generate_signature", data, private_key_pem, "none",
                        EmptyText, NoPem, generate_signature(data, private_key_pem))
    /\ UNCHANGED nonCryVars

\* verify_signature on what generate_signature returned, altered or not.
VerifySignature ==
    /\ clast.op = "generate_signature"
    /\ clast.out.exc = "none"
    /\ \E how \in SignatureTamperings, data \in Texts, public_key_pem \in PublicKeyPems :
         clast' = CCall("verify_signature", clast.text, clast.pem, how,
                        data, public_key_pem,
                        verify_signature(data, TamperSignature(clast.out.ret, how),
                                         public_key_pem))
    /\ UNCHANGED nonCryVars

CryNext ==
    \/ EncryptMessage
    \/ DecryptMessage
    \/ ManagerDecryptMessage
    \/ GenerateSignature
    \/ VerifySignature

SpecCrypto == Init /\ [][CryNext]_vars

(***************************************************************************)
(* Claims: encryption and signatures                                       *)
(***************************************************************************)

\* The private key given to the second call belongs to the pair of the public
\* key given to the first.
MatchingPrivate == 
    /\ clast.pem.kind = "public"
    /\ clast.pem2 = PrivatePem(clast.pem.pair)

\* The private key given is the private key of another pair.
OtherPrivate ==
    /\ clast.pem.kind = "public"
    /\ clast.pem2.kind = "private"
    /\ clast.pem2.pair # clast.pem.pair

VerifyingWithPublicKey == clast.pem.kind = "private" /\ clast.pem2.kind = "public"

Unaltered ==
    /\ clast.tamper = "none"
    /\ clast.text2 = clast.text
    /\ clast.pem2.pair = clast.pem.pair

\* C26: verify_signature on data D, the signature generate_signature(D, priv)
\* returned and pub returns True; with other data, an altered signature or
\* the public key of another pair it returns False.
C26_SignatureRoundTrip ==
    (clast.op = "verify_signature" /\ VerifyingWithPublicKey)
        => /\ clast.out.exc = "none"
           /\ clast.out.ret = Unaltered

\* C27: verify_signature raises nothing, whatever it is given.
C27_VerifyNeverThrows ==
    clast.op = "verify_signature" => clast.out.exc = "none"

\* C28: decrypt_message raises, and returns no plaintext, when the private key
\* is that of another pair, when the algorithm identifier is not the one
\* encrypt_message writes, and when the ciphertext was altered.
C28_DecryptFailsOnFault ==
    (/\ clast.op = "decrypt_message"
     /\ \/ OtherPrivate
        \/ clast.tamper \in {"algorithm", "ciphertext", "ciphertext_base64"})
        => clast.out.exc # "none"

\* C29: for what encrypt_message returned, decrypt_message with the private key
\* of another pair and decrypt_message with the right private key on an
\* altered ciphertext end the same way: no caller can tell the two faults
\* apart.
C29_FaultsIndistinguishable ==
    (clast.op = "encrypt_message" /\ clast.out.exc = "none") =>
        \A other \in KeyPairs \ {clast.pem.pair} :
        \A how \in {"ciphertext", "ciphertext_base64"} :
            decrypt_message(clast.out.ret, PrivatePem(other))
              = decrypt_message(Tamper(clast.out.ret, how), PrivatePem(clast.pem.pair))

(***************************************************************************)
(* MessageManager                                                          *)
(***************************************************************************)

\* federated_users.public_key: the users registered with a key.
RegisteredKeys ==
    [u \in Addresses |->
        IF u = "alice@a.example" THEN PublicPem("kp1")
        ELSE IF u = "bob@b.example" THEN PublicPem("kp2")
        ELSE NoPem]

\* _get_public_key(user_address): the key, or NoPem for None.
get_public_key(user_address) == RegisteredKeys[user_address]

\* The rows SELECT ... FROM direct_messages WHERE id = $1 AND (from_user = $2
\* OR to_user = $2) gives.
SelectMessage(rows, message_id, user_address) ==
    {m \in rows : m.id = message_id
                  /\ (m.from_user = user_address \/ m.to_user = user_address)}

\* A variant of the UPDATE that leaves out the recipient.
UpdatedMessages_AnyUser(rows, message_id, user_address) ==
    {m \in rows : m.id = message_id}

\* The rows UPDATE direct_messages SET read = TRUE WHERE id = $1 AND
\* to_user = $2 changes.
UpdatedMessages(rows, message_id, user_address) ==
    {m \in rows : m.id = message_id /\ m.to_user = user_address}

\* A variant of the SET clause that flips the flag.
SetRead_Toggle(m) == [m EXCEPT !.read = ~m.read]

\* SET read = TRUE: the row with its read flag set and every other column
\* as it was.
SetRead(m) == [m EXCEPT !.read = TRUE]

\* "UPDATE 1" in result, the result of an UPDATE of n rows being "UPDATE n".
UpdateOneIn(n) == LeadingDigit(n) = 1

\* send_message(from_user, to_user, content): without a key of the recipient
\* it raises ValueError; otherwise it encrypts and inserts a row under a fresh
\* id, unread.
SendMessage ==
    /\ \E from_user \in Users, to_user \in Addresses,
          content \in {<<104, 105>>}, symmetric_key \in {"s1"} :
        LET recipient_key == get_public_key(to_user)
            encrypted_data == encrypt_message(content, recipient_key, symmetric_key)
            message_id == Cardinality(msgs) + 1
        IN  IF recipient_key = NoPem
            THEN /\ mlast' = MCall("send_message", NoId, from_user, to_user, NoMsg,
                                   FALSE, "ValueError")
                 /\ msgs' = msgs
            ELSE IF encrypted_data.exc # "none"
            THEN /\ mlast' = MCall("send_message", NoId, from_user, to_user, NoMsg,
                                   FALSE, encrypted_data.exc)
                 /\ msgs' = msgs
            ELSE /\ Cardinality(msgs) < MaxMsgs
                 /\ \E created_at \in Times :
                      /\ msgs' = msgs \cup {Msg(message_id, from_user, to_user,
                                                encrypted_data.ret, created_at, FALSE)}
                      /\ mlast' = MCall("send_message", message_id, from_user, to_user,
                                        Msg(message_id, from_user, to_user,
                                            encrypted_data.ret, created_at, FALSE),
                                        TRUE, "none")
    /\ UNCHANGED nonMsgVars

\* get_message(message_id, user_address)
GetMessage ==
    /\ \E message_id \in 1..MaxMsgs, user_address \in Addresses :
        LET message == SelectMessage(msgs, message_id, user_address)
        IN  IF message = {}
            THEN mlast' = MCall("get_message", message_id, user_address, "none", NoMsg,
                                FALSE, "none")
            ELSE \E m \in message :
                    mlast' = MCall("get_message", message_id, user_address, "none", m,
                                   TRUE, "none")
    /\ UNCHANGED <<msgs, nonMsgVars>>

\* mark_as_read(message_id, user_address)
MarkAsRead ==
    /\ \E message_id \in 1..MaxMsgs, user_address \in Addresses :
        LET updated == UpdatedMessages(msgs, message_id, user_address)
        IN  /\ msgs' = (msgs \ updated) \cup {SetRead(m) : m \in updated}
            /\ mlast' = MCall("mark_as_read", message_id, user_address, "none", NoMsg,
                              UpdateOneIn(Cardinality(updated)), "none")
    /\ UNCHANGED nonMsgVars

\* get_conversation(user1, user2): the messages between the two, in either
\* direction (the list, taken as the set of its rows).
GetConversation ==
    /\ \E user1 \in Users, user2 \in Users :
        mlast' = [MCall("get_conversation", NoId, user1, user2, NoMsg, FALSE, "none")
                    EXCEPT !.messages =
                        {m \in msgs : \/ m.from_user = user1 /\ m.to_user = user2
                                      \/ m.from_user = user2 /\ m.to_user = user1}]
    /\ UNCHANGED <<msgs, nonMsgVars>>

\* get_unread_count(user_address): COUNT(*) of the unread messages to the user.
GetUnreadCount ==
    /\ \E user_address \in Addresses :
        mlast' = [MCall("get_unread_count", NoId, user_address, "none", NoMsg, FALSE,
                        "none")
                    EXCEPT !.count =
                        Cardinality({m \in msgs : m.to_user = user_address /\ ~m.read})]
    /\ UNCHANGED <<msgs, nonMsgVars>>

MsgNext ==
    \/ SendMessage
    \/ GetMessage
    \/ MarkAsRead
    \/ GetConversation
    \/ GetUnreadCount

SpecMessaging == Init /\ [][MsgNext]_vars

(***************************************************************************)
(* Claims: stored messages                                                 *)
(***************************************************************************)

MessagesWithId(id) == {m \in msgs : m.id = id}

\* C30: get_message gives a stored message to its sender and to its recipient
\* and None to anybody else, and changes no row; mark_as_read by the recipient
\* returns True and sets the read flag of that message, and by anybody else
\* (the sender included) returns False and changes no row.
C30_OwnersReadRecipientMarks ==
    [][/\ mlast'.op = "get_message" =>
            /\ msgs' = msgs
            /\ \A m \in MessagesWithId(mlast'.message_id) :
                  IF mlast'.user_address \in {m.from_user, m.to_user}
                  THEN mlast'.message = m
                  ELSE mlast'.message = NoMsg
            /\ MessagesWithId(mlast'.message_id) = {} => mlast'.message = NoMsg
       /\ mlast'.op = "mark_as_read" =>
            IF \E m \in MessagesWithId(mlast'.message_id) : m.to_user = mlast'.user_address
            THEN /\ mlast'.ret = TRUE
                 /\ msgs' = {IF m.id = mlast'.message_id THEN [m EXCEPT !.read = TRUE] ELSE m :
                             m \in msgs}
            ELSE /\ mlast'.ret = FALSE
                 /\ msgs' = msgs]_vars

\* mark_as_read by the sender of an unread message to somebody else has
\* returned False, and the message is still unread.
C30_Witness ==
    /\ mlast.op = "mark_as_read"
    /\ mlast.ret = FALSE
    /\ \E m \in msgs :
          /\ m.id = mlast.message_id
          /\ m.from_user = mlast.user_address
          /\ m.to_user # mlast.user_address
          /\ ~m.read

(***************************************************************************)
(* Claims: what a stored message keeps                                     *)
(***************************************************************************)

\* The columns of a message other than read.
Fixed(m) == [m EXCEPT !.read = FALSE]

\* C31: every stored message is still stored after any MessageManager
\* operation, under the same id and with the same sender, recipient,
\* ciphertext, wrapped key, algorithm and creation time, no other row takes
\* its id, and a message that was read is still read.
C31_OnlyReadChangesOnce ==
    [][\A m \in msgs :
          /\ \E n \in msgs' : Fixed(n) = Fixed(m) /\ (m.read => n.read)
          /\ \A n \in msgs' : n.id = m.id => Fixed(n) = Fixed(m)]_vars

\* The recipient has marked a message, and every stored message is read.
C31_Witness ==
    /\ mlast.op = "mark_as_read"
    /\ mlast.ret = TRUE
    /\ Cardinality(msgs) = MaxMsgs
    /\ \A m \in msgs : m.read

\* C32: no stored message has its sender as its recipient.
C32_TwoIdentities == \A m \in msgs : m.from_user # m.to_user

(***************************************************************************)
(* UserManager                                                             *)
(***************************************************************************)

\* SELECT ... FROM federated_users WHERE username = $1 AND domain = $2
SelectUser(rows, address) == {u \in rows : u.address = address}

\* '@' in user_address
HasAt(user_address) == user_address \in Addresses

\* A variant of allowed_fields that lets the key columns through.
allowed_fields_WithKeys ==
    {"display_name", "bio", "avatar_url", "public_key", "private_key_encrypted"}

\* allowed_fields of update_profile
allowed_fields == {"display_name", "bio", "avatar_url"}

\* {k: v for k, v in updates.items() if k in allowed_fields}
update_fields(updates) == {item \in updates : item[1] \in allowed_fields}

\* UPDATE federated_users SET <field> = <value>, ... for every field of
\* fields: the row after it.
SetClause(row, fields) ==
    LET Value(field) ==
            IF field \in DictKeys(fields) THEN DictGet(fields, field) ELSE row[field]
    IN  User(row.id, row.address, Value("display_name"), Value("bio"),
             Value("avatar_url"), Value("public_key"), Value("private_key_encrypted"),
             row.password_hash)

\* create_user(username, password, domain): a fresh id and a fresh key pair,
\* inserted. The table's constraints are not part of the source: for an address
\* that is stored already the INSERT either adds a second row or is refused.
CreateUser ==
    /\ nextUser <= MaxUsers
    /\ \E address \in Users, password \in {"pw1"}, keypair \in KeyPairs,
          refused \in BOOLEAN :
        LET user == User(nextUser, address, "none", "none", "none",
                         PublicPem(keypair), PrivatePem(keypair),
                         hash_password(password))
        IN  /\ refused => SelectUser(users, address) # {}
            /\ nextUser' = nextUser + 1
            /\ IF refused
               THEN /\ users' = users
                    /\ ulast' = UCall("create_user", NoId, address, {}, NoUser, FALSE,
                                      "UniqueViolationError")
               ELSE /\ users' = users \cup {user}
                    /\ ulast' = UCall("create_user", nextUser, address, {}, user, TRUE,
                                      "none")
    /\ UNCHANGED nonUsrVars

\* authenticate_user(username, password, domain)
AuthenticateUser ==
    /\ \E address \in Addresses, password \in Passwords :
        LET user_data == SelectUser(users, address)
        IN  IF user_data = {}
            THEN ulast' = UCall("authenticate_user", NoId, address, {}, NoUser, FALSE,
                                "none")
            ELSE \E u \in user_data :
                    ulast' = IF verify_password(password, u.password_hash)
                             THEN UCall("authenticate_user", u.id, address, {}, u, TRUE,
                                        "none")
                             ELSE UCall("authenticate_user", NoId, address, {}, NoUser,
                                        FALSE, "none")
    /\ UNCHANGED <<users, nextUser, nonUsrVars>>

\* get_user(user_address)
GetUser ==
    /\ \E user_address \in Addresses \cup {"nobody"} :
        LET user_data == SelectUser(users, user_address)
        IN  IF ~HasAt(user_address) \/ user_data = {}
            THEN ulast' = UCall("get_user", NoId, user_address, {}, NoUser, FALSE, "none")
            ELSE \E u \in user_data :
                    ulast' = UCall("get_user", u.id, user_address, {}, u, TRUE, "none")
    /\ UNCHANGED <<users, nextUser, nonUsrVars>>

\* update_profile(user_id, updates)
UpdateProfile ==
    /\ \E user_id \in 1..MaxUsers, updates \in UpdateDicts :
        LET fields == update_fields(updates)
            updated == {u \in users : u.id = user_id}
        IN  IF fields = {}
            THEN /\ users' = users
                 /\ ulast' = UCall("update_profile", user_id, "none", updates, NoUser,
                                   FALSE, "none")
            ELSE /\ users' = (users \ updated) \cup {SetClause(u, fields) : u \in updated}
                 /\ ulast' = UCall("update_profile", user_id, "none", updates, NoUser,
                                   UpdateOneIn(Cardinality(updated)), "none")
    /\ UNCHANGED <<nextUser, nonUsrVars>>

\* delete_user(user_id)
DeleteUser ==
    /\ \E user_id \in 1..MaxUsers :
        LET deleted == {u \in users : u.id = user_id}
        IN  /\ users' = users \ deleted
            /\ ulast' = UCall("delete_user", user_id, "none", {}, NoUser,
                              DeleteOneIn(Cardinality(deleted)), "none")
    /\ UNCHANGED <<nextUser, nonUsrVars>>

UsrNext ==
    \/ CreateUser
    \/ AuthenticateUser
    \/ GetUser
    \/ UpdateProfile
    \/ DeleteUser

SpecUsers == Init /\ [][UsrNext]_vars

(***************************************************************************)
(* Claims: a user's key pair                                               *)
(***************************************************************************)

\* C33: after any UserManager operation, every user that is still stored has
\* the public and the private key it had before.
C33_KeyPairImmutable ==
    [][\A u \in users : \A v \in users' :
          v.id = u.id => /\ v.public_key = u.public_key
                         /\ v.private_key_encrypted = u.private_key_encrypted]_vars

\* update_profile has changed the profile of a user under a dictionary that
\* also names a key column.
C33_Witness ==
    /\ ulast.op = "update_profile"
    /\ ulast.ret = TRUE
    /\ "private_key_encrypted" \in DictKeys(ulast.updates)
    /\ \E u \in users : u.id = ulast.user_id /\ u.display_name = "Al"

(***************************************************************************)
(* REST API: middlewares, routes and handlers                              *)
(***************************************************************************)

\* What aiohttp answers when a handler raises an exception that is no
\* HTTPException.
InternalServerError == Response(500, {}, "none")

\* federation_inbox(request): 202 once the body parses as JSON, 400 otherwise.
federation_inbox(request) ==
    IF request.body = "not json"
    THEN Response(400, {"status", "message"}, "federation_inbox")
    ELSE Response(202, {"status"}, "federation_inbox")

\* webfinger(request), the server's domain being a.example: a resource
\* without '@' makes resource.split('@')[1] raise IndexError.
webfinger(request) ==
    IF request.resource \in {"acct:alice@a.example", "acct:alice@b.example", "acct:alice"}
    THEN IF request.resource = "acct:alice"
         THEN [InternalServerError EXCEPT !.handler = "webfinger"]
         ELSE IF request.resource = "acct:alice@a.example"
         THEN Response(200, {"subject", "links"}, "webfinger")
         ELSE Response(404, {"error"}, "webfinger")
    ELSE Response(404, {"error"}, "webfinger")

\* nodeinfo(request)
nodeinfo(request) == Response(200, {"links"}, "nodeinfo")

\* The routes setup_routes registers, in its order: method, path and the
\* attribute of RESTAPI named as the handler.
Route(method, path, handler) == [method |-> method, path |-> path, handler |-> handler]
Routes ==
    << Route("POST", "/api/v1/users", "create_user"),
       Route("GET", "/api/v1/users/{user_id}", "get_user"),
       Route("POST", "/api/v1/users/login", "login_user"),
       Route("POST", "/api/v1/content", "create_content"),
       Route("GET", "/api/v1/content/{content_id}", "get_content"),
       Route("GET", "/api/v1/timeline", "get_timeline"),
       Route("POST", "/api/v1/interactions/like", "like_content"),
       Route("POST", "/api/v1/interactions/comment", "comment_content"),
       Route("POST", "/api/v1/interactions/repost", "repost_content"),
       Route("POST", "/federation/inbox", "federation_inbox"),
       Route("GET", "/.well-known/webfinger", "webfinger"),
       Route("GET", "/.well-known/nodeinfo", "nodeinfo") >>

\* The methods class RESTAPI defines.
RESTAPIMethods ==
    {"__init__", "setup_routes", "create_user", "login_user", "create_content",
     "like_content", "federation_inbox", "webfinger", "nodeinfo"}

\* setup_routes(): self.<handler> of a name the class does not define raises
\* AttributeError, and the constructor with it.
setup_routes ==
    IF \E i \in DOMAIN Routes : Routes[i].handler \notin RESTAPIMethods
    THEN Raise("AttributeError", "None")
    ELSE Return("Application")

\* The router of a built application: the handler of the route that matches
\* the path and the method; 405 for a path registered under another method,
\* 404 for a path no route has.
Router(request) ==
    IF \E i \in DOMAIN Routes : Routes[i].path = request.path
    THEN IF \E i \in DOMAIN Routes : /\ Routes[i].path = request.path
                                      /\ Routes[i].method = request.method
         THEN IF request.path = "/federation/inbox" THEN federation_inbox(request)
              ELSE IF request.path = "/.well-known/webfinger" THEN webfinger(request)
              ELSE nodeinfo(request)
         ELSE Response(405, {}, "none")
    ELSE Response(404, {}, "none")

\* RateLimitMiddleware.get_request_count: a placeholder returning 0.
get_request_count == 0

\* security.rate_limit_requests
rate_limit == 100

\* RateLimitMiddleware.middleware
RateLimitMiddleware(request) ==
    IF request.path \in {"/federation/inbox"}
    THEN Router(request)
    ELSE IF get_request_count >= rate_limit
    THEN Response(429, {"error"}, "none")
    ELSE Router(request)

\* The paths AuthMiddleware lets through without a token.
PublicPaths ==
    {"/api/v1/users", "/api/v1/users/login", "/.well-known/webfinger",
     "/.well-known/nodeinfo"}

\* jwt.decode(token, secret, algorithms=['HS256']) of the token after
\* "Bearer ": the exception it raises, or "none".
jwt_decode(authorization) ==
    IF authorization = "Bearer valid" THEN "none"
    ELSE IF authorization = "Bearer expired" THEN "ExpiredSignatureError"
    ELSE "InvalidTokenError"

\* AuthMiddleware.middleware, the first middleware of the application.
AuthMiddleware(request) ==
    IF request.path \in PublicPaths
    THEN RateLimitMiddleware(request)
    ELSE IF request.authorization \in {"None", "Basic"}
    THEN Response(401, {"error"}, "none")
    ELSE IF jwt_decode(request.authorization) # "none"
    THEN Response(401, {"error"}, "none")
    ELSE RateLimitMiddleware(request)

\* create_app(db): RESTAPI(db) builds the application with the two
\* middlewares and calls setup_routes.
CreateApp ==
    /\ app' = setup_routes.ret
    /\ hlast' = HCall("create_app", NoRequest, NoResponse, setup_routes.exc)
    /\ UNCHANGED nonHttpVars

\* One request sent to the server: a built application answers it through
\* AuthMiddleware, RateLimitMiddleware and the router; without an application
\* nothing answers.
HandleRequest ==
    /\ \E path \in Paths, method \in Methods, authorization \in AuthHeaders,
          body \in Bodies, resource \in Resources :
        LET request == Request(path, method, authorization, body, resource)
        IN  hlast' = HCall("request", request,
                           IF app = "Application" THEN AuthMiddleware(request)
                           ELSE NoResponse,
                           "none")
    /\ UNCHANGED <<app, nonHttpVars>>

HttpNext ==
    \/ CreateApp
    \/ HandleRequest

SpecHttp == Init /\ [][HttpNext]_vars

(***************************************************************************)
(* Claims: the inbox over HTTP                                             *)
(***************************************************************************)

InboxPost ==
    /\ hlast.op = "request"
    /\ hlast.request.path = "/federation/inbox"
    /\ hlast.request.method = "POST"

\* C34: a POST to the inbox is answered 202 only for an activity that passes
\* validation, and an activity that is badly signed, from a blocked domain or
\* of an unsupported type is answered 4xx with an error field in the body.
C34_InboxValidates ==
    InboxPost =>
        /\ hlast.response.status = 202 => hlast.request.body = "valid"
        /\ hlast.request.body \in {"invalid signature", "blocked domain",
                                   "unsupported type"} =>
              /\ hlast.response.status \in 400..499
              /\ "error" \in hlast.response.body

\* C37: a request to the inbox without a valid Bearer token is answered 401
\* and federation_inbox is not reached; a request that is answered by a
\* handler without a valid Bearer token is to one of the four public paths.
C37_InboxNeedsToken ==
    hlast.op = "request" =>
        /\ (hlast.request.path = "/federation/inbox"
            /\ hlast.request.authorization # "Bearer valid") =>
              /\ hlast.response.status = 401
              /\ hlast.response.handler = "none"
        /\ (hlast.response.handler # "none"
            /\ hlast.request.authorization # "Bearer valid") =>
              hlast.request.path \in {"/api/v1/users", "/api/v1/users/login",
                                      "/.well-known/webfinger", "/.well-known/nodeinfo"}

(***************************************************************************)
(* Claims: following and blocking oneself                                  *)
(***************************************************************************)

\* C38: follow(A, A) and block(A, A) return False and leave user_relationships
\* as it was, whatever it holds.
C38_SelfFollowBlockRefused ==
    [][(slast'.op \in {"follow", "block"}
        /\ slast'.user_address = slast'.target_address) =>
          /\ slast'.ret = FALSE
          /\ rel' = rel]_vars

\* block(A, A) has returned False while A follows and blocks others.
C38_Witness ==
    /\ slast.op = "block"
    /\ slast.user_address = slast.target_address
    /\ slast.ret = FALSE
    /\ \E t \in Addresses : rel[<<slast.user_address, t>>] = "follow"
    /\ \E t \in Addresses : rel[<<slast.user_address, t>>] = "block"

(***************************************************************************)
(* SocialGraph: follow and block of the same pair, interleaved             *)
(***************************************************************************)

\* What the steps of the two coroutines leave alone.
nonRaceVars == <<slast, fedVars, fanVars, intVars, proVars, cryVars, msgVars, usrVars, httpVars, wsVars>>

\* Both calls are made, none having issued a statement yet; a call on one's
\* own address returns False at once.
StartFollowBlock ==
    /\ fb.fpc \in {"idle", "done"}
    /\ fb.bpc \in {"idle", "done"}
    /\ \E u \in Users, t \in Users :
        fb' = IF SameUser(u, t)
              THEN FbCall(u, t, "done", "none", FALSE, "done", FALSE)
              ELSE FbCall(u, t, "select1", "none", FALSE, "unfollow1", FALSE)
    /\ UNCHANGED <<rel, nonRaceVars>>

\* follow, in get_relationship: the SELECT of the caller's own row; a follow
\* or block row makes follow return False.
FollowSelect1 ==
    /\ fb.fpc = "select1"
    /\ LET row == rel[<<fb.user_address, fb.target_address>>]
       IN  fb' = IF row = "follow"
                 THEN [fb EXCEPT !.fpc = "done", !.fstatus = "following", !.fret = FALSE]
                 ELSE IF row = "block"
                 THEN [fb EXCEPT !.fpc = "done", !.fstatus = "blocking", !.fret = FALSE]
                 ELSE [fb EXCEPT !.fpc = "select2"]
    /\ UNCHANGED <<rel, nonRaceVars>>

\* follow, in get_relationship: the SELECT of the target's row; none of the
\* statuses it leads to stops follow.
FollowSelect2 ==
    /\ fb.fpc = "select2"
    /\ LET row == rel[<<fb.target_address, fb.user_address>>]
       IN  fb' = [fb EXCEPT !.fpc = "upsert",
                            !.fstatus = IF row = "follow" THEN "followed_by"
                                        ELSE IF row = "block" THEN "blocked_by"
                                        ELSE "none"]
    /\ UNCHANGED <<rel, nonRaceVars>>

\* follow: the upsert of the follow row, and the return.
FollowUpsert ==
    /\ fb.fpc = "upsert"
    /\ rel' = Upsert(rel, fb.user_address, fb.target_address, "follow")
    /\ fb' = [fb EXCEPT !.fpc = "done", !.fret = UpsertDone]
    /\ UNCHANGED nonRaceVars

\* block: await self.unfollow(user_address, target_address)
BlockUnfollow1 ==
    /\ fb.bpc = "unfollow1"
    /\ rel' = unfollow(rel, fb.user_address, fb.target_address).rel
    /\ fb' = [fb EXCEPT !.bpc = "unfollow2"]
    /\ UNCHANGED nonRaceVars

\* block: await self.unfollow(target_address, user_address)
BlockUnfollow2 ==
    /\ fb.bpc = "unfollow2"
    /\ rel' = unfollow(rel, fb.target_address, fb.user_address).rel
    /\ fb' = [fb EXCEPT !.bpc = "upsert"]
    /\ UNCHANGED nonRaceVars

\* block: the upsert of the block row, and the return.
BlockUpsert ==
    /\ fb.bpc = "upsert"
    /\ rel' = Upsert(rel, fb.user_address, fb.target_address, "block")
    /\ fb' = [fb EXCEPT !.bpc = "done", !.bret = UpsertDone]
    /\ UNCHANGED nonRaceVars

FbNext ==
    \/ StartFollowBlock
    \/ FollowSelect1
    \/ FollowSelect2
    \/ FollowUpsert
    \/ BlockUnfollow1
    \/ BlockUnfollow2
    \/ BlockUpsert

SpecFollowBlock == Init /\ [][FbNext]_vars

(***************************************************************************)
(* Claims: follow racing block                                             *)
(***************************************************************************)

\* C35: once follow(A, B) and block(A, B), run concurrently for A other than
\* B, have both returned, the row of A towards B is a block row.
C35_BlockSurvivesFollow ==
    (fb.fpc = "done" /\ fb.bpc = "done" /\ fb.user_address # fb.target_address) =>
        rel[<<fb.user_address, fb.target_address>>] = "block"

(***************************************************************************)
(* Claims: like rows and like_count under calls made one after another     *)
(***************************************************************************)

\* like_content and unlike_content calls, each run to its end before the next.
LikesNext ==
    \/ LikeContent
    \/ UnlikeContent

SpecLikes == Init /\ [][LikesNext]_vars

\* C36: for every content, like_count is the number of its like rows and is
\* not negative, and no actor has two like rows on it.
C36_LikeCountIsRowCount ==
    \A c \in Contents :
        /\ counts[c].like_count = Cardinality({r \in likes : r.content_id = c})
        /\ counts[c].like_count >= 0
        /\ \A u \in Users : Cardinality(LikeRows(u, c)) <= 1

\* An actor has removed their like from a content another actor still likes.
C36_Witness ==
    /\ ilast.op = "unlike_content"
    /\ ilast.status = "unliked"
    /\ \E r \in likes : r.content_id = ilast.content_id
    /\ counts[ilast.content_id].like_count = 1

(***************************************************************************)
(* Claims: calls on a Federation without a live session                    *)
(***************************************************************************)

\* C40: with the session None (initialize not called) or closed,
\* discover_server and deliver_activity raise nothing; discover_server returns
\* the URL of the first SRV record or None, and deliver_activity returns False
\* and sends no request.
C40_NoSessionNeverRaises ==
    (last.op \in {"discover_server", "deliver_activity"} /\ session \in {"None", "closed"}) =>
        /\ last.raised = "none"
        /\ last.requests = << >>
        /\ IF last.srv.exc = "none" /\ last.srv.records # << >>
           THEN last.server_url = SrvUrl(last.srv.records[1])
           ELSE last.server_url = None
        /\ last.op = "deliver_activity" => last.delivered = FALSE

\* deliver_activity after close(), discovery having found an SRV record, has
\* returned False.
C40_Witness ==
    /\ last.op = "deliver_activity"
    /\ session = "closed"
    /\ last.server_url # None
    /\ last.delivered = FALSE
    /\ last.raised = "none"

(***************************************************************************)
(* WebSocketManager                                                        *)
(***************************************************************************)

\* if user_id not in self.connections: self.connections[user_id] = set()
\* self.connections[user_id].add(ws)
AddConnection(conns, user_id, ws) ==
    [u \in DOMAIN conns \cup {user_id} |->
        IF u = user_id
        THEN (IF user_id \in DOMAIN conns THEN conns[user_id] ELSE {}) \cup {ws}
        ELSE conns[u]]

\* The finally clause of handle_websocket: the socket is discarded from the
\* user's set, and the key deleted when the set is left empty.
RemoveConnection(conns, user_id, ws) ==
    IF user_id \in DOMAIN conns
    THEN IF conns[user_id] \ {ws} = {}
         THEN [u \in DOMAIN conns \ {user_id} |-> conns[u]]
         ELSE [conns EXCEPT ![user_id] = @ \ {ws}]
    ELSE conns

\* self.connections[user_id].discard(ws) for every socket the send failed on.
DiscardFailed(conns, user_id, failed) ==
    [conns EXCEPT ![user_id] = @ \ failed]

\* handle_websocket(request) up to its message loop: without a user_id on the
\* request the socket is closed and the call returns; otherwise the socket is
\* added to the user's set.
Connect ==
    /\ \E ws \in Sockets, user_id \in WsUserIds \cup {NoUserId} :
        /\ sockets[ws].state = "new"
        /\ IF user_id = NoUserId
           THEN /\ sockets' = [sockets EXCEPT ![ws] = Socket("returned", NoUserId)]
                /\ connections' = connections
           ELSE /\ sockets' = [sockets EXCEPT ![ws] = Socket("open", user_id)]
                /\ connections' = AddConnection(connections, user_id, ws)
        /\ wlast' = WCall("handle_websocket", user_id, ws, {}, FALSE, 0)
    /\ UNCHANGED nonWsVars

\* The message loop of handle_websocket ends (the peer closed, or the loop
\* raised): the finally clause runs and the call returns.
Disconnect ==
    /\ \E ws \in Sockets :
        /\ sockets[ws].state = "open"
        /\ sockets' = [sockets EXCEPT ![ws].state = "returned"]
        /\ connections' = RemoveConnection(connections, sockets[ws].user_id, ws)
        /\ wlast' = WCall("return", sockets[ws].user_id, ws, {}, FALSE, 0)
    /\ UNCHANGED nonWsVars

\* send_to_user(user_id, message): ws.send_str raises on the sockets of
\* failed, which are discarded from the user's set.
SendToUser ==
    /\ \E user_id \in WsUserIds :
        IF user_id \notin DOMAIN connections
        THEN /\ wlast' = WCall("send_to_user", user_id, 0, {}, FALSE, 0)
             /\ UNCHANGED <<connections, sockets>>
        ELSE \E failed \in SUBSET connections[user_id] :
                LET successful == Cardinality(connections[user_id] \ failed)
                IN  /\ connections' = DiscardFailed(connections, user_id, failed)
                    /\ wlast' = WCall("send_to_user", user_id, 0, failed,
                                      successful > 0, successful)
                    /\ UNCHANGED sockets
    /\ UNCHANGED nonWsVars

\* The sockets registered under any key.
Registered(conns) == UNION {conns[u] : u \in DOMAIN conns}

\* broadcast(message): ws.send_str raises on the sockets of failed, each of
\* which is discarded from its user's set.
Broadcast ==
    /\ \E failed \in SUBSET Registered(connections) :
        /\ connections' = [u \in DOMAIN connections |-> connections[u] \ failed]
        /\ wlast' = WCall("broadcast", NoUserId, 0, failed, FALSE,
                          Cardinality(Registered(connections) \ failed))
        /\ UNCHANGED sockets
    /\ UNCHANGED nonWsVars

WsNext ==
    \/ Connect
    \/ Disconnect
    \/ SendToUser
    \/ Broadcast

SpecWebSocket == Init /\ [][WsNext]_vars

(***************************************************************************)
(* Claims: the connection registry                                         *)
(***************************************************************************)

\* C39: every key of connections maps to a non-empty set, every socket in a
\* set is there under the authenticated user_id of its request, and a socket
\* whose handle_websocket has returned is in no set.
C39_RegistryConsistent ==
    /\ \A u \in DOMAIN connections : connections[u] # {}
    /\ \A u \in DOMAIN connections : \A ws \in connections[u] :
          /\ u \in WsUserIds
          /\ sockets[ws].user_id = u
    /\ \A ws \in Sockets :
          sockets[ws].state = "returned" =>
              \A u \in DOMAIN connections : ws \notin connections[u]

====








